---- MODULE Spec2Model ----
(***************************************************************************)
(* Paired-comparison analysis of the GraphQL vs REST experiment:           *)
(* ExperimentAnalyzer (experiment_analyzer.py) and                         *)
(* GraphQLvsRESTReportGenerator (generate_experiment_report.py).           *)
(*                                                                         *)
(* The CSV file is the input, load_data builds the dataframe, analyze_rq1  *)
(* and analyze_rq2 compute a result from it.  Measurement values are       *)
(* binary floating-point numbers (pandas float64 columns); the model keeps *)
(* the rounding of every numpy operation and shortens the significand to   *)
(* MantissaBits bits.  The scipy routines (shapiro, ttest_rel, wilcoxon)   *)
(* are external: their p-value, or their failure, is a nondeterministic    *)
(* choice.                                                                 *)
(***************************************************************************)
EXTENDS Integers, Sequences, FiniteSets, TLC

\* Bits of the significand of a float (53 in float64).
MantissaBits == 4

(***************************************************************************)
(* Floating point: [nan, m, e] is NaN or the number m * 2^e, normalised    *)
(* (m odd, or m = 0 and e = 0).  The exponent range is not bounded.        *)
(***************************************************************************)
Pow2(n) == IF n <= 0 THEN 1 ELSE 2 ^ n

RECURSIVE BitLen(_)
BitLen(n) == IF n <= 0 THEN 0 ELSE 1 + BitLen(n \div 2)

Abs(i) == IF i < 0 THEN -i ELSE i

Sign(i) == IF i < 0 THEN -1 ELSE IF i > 0 THEN 1 ELSE 0

NaN == [nan |-> TRUE, m |-> 0, e |-> 0]

RECURSIVE Norm(_, _)
Norm(m, e) ==
    IF m = 0 THEN [nan |-> FALSE, m |-> 0, e |-> 0]
    ELSE IF m % 2 = 0 THEN Norm(m \div 2, e + 1)
    ELSE [nan |-> FALSE, m |-> m, e |-> e]

\* The float nearest to the exact number M * 2^e, ties to the even significand.
RoundHE(M, e) ==
    LET a == Abs(M)
        L == BitLen(a)
    IN  IF L <= MantissaBits THEN Norm(M, e)
        ELSE LET s    == L - MantissaBits
                 q    == a \div Pow2(s)
                 r    == a % Pow2(s)
                 half == Pow2(s - 1)
                 up   == r > half \/ (r = half /\ q % 2 = 1)
                 q2   == IF up THEN q + 1 ELSE q
             IN  Norm(Sign(M) * q2, e + s)

FromInt(i) == RoundHE(i, 0)

Zero == FromInt(0)

IsNaN(x) == x.nan

Min2(a, b) == IF a < b THEN a ELSE b

\* The exact difference x - y of two numbers, as an integer multiple of 2^e0.
ExactSub(x, y) ==
    LET e0 == Min2(x.e, y.e)
    IN  x.m * Pow2(x.e - e0) - y.m * Pow2(y.e - e0)

FAdd(x, y) ==
    IF x.nan \/ y.nan THEN NaN
    ELSE LET e0 == Min2(x.e, y.e)
         IN  RoundHE(x.m * Pow2(x.e - e0) + y.m * Pow2(y.e - e0), e0)

FSub(x, y) ==
    IF x.nan \/ y.nan THEN NaN
    ELSE RoundHE(ExactSub(x, y), Min2(x.e, y.e))

FMul(x, y) ==
    IF x.nan \/ y.nan THEN NaN
    ELSE RoundHE(x.m * y.m, x.e + y.e)

\* x / y for y # 0: the quotient to MantissaBits + 3 bits and a sticky bit,
\* then rounded.
FDiv(x, y) ==
    IF x.nan \/ y.nan \/ y.m = 0 THEN NaN
    ELSE IF x.m = 0 THEN Zero
    ELSE LET a == Abs(x.m)
             b == Abs(y.m)
             k == MantissaBits + 2 + BitLen(b)
             q == (a * Pow2(k)) \div b
             r == (a * Pow2(k)) % b
             Q == 2 * q + (IF r = 0 THEN 0 ELSE 1)
         IN  RoundHE(Sign(x.m) * Sign(y.m) * Q, x.e - y.e - k - 1)

\* The integer square root of n, between lo and hi (lo * lo <= n < hi * hi).
RECURSIVE ISqrtIn(_, _, _)
ISqrtIn(n, lo, hi) ==
    IF hi - lo <= 1 THEN lo
    ELSE LET mid == (lo + hi) \div 2
         IN  IF mid * mid <= n THEN ISqrtIn(n, mid, hi) ELSE ISqrtIn(n, lo, mid)

ISqrt(n) == ISqrtIn(n, 0, Pow2((BitLen(n) + 1) \div 2) + 1)

\* sqrt(x) for x >= 0, correctly rounded; NaN for x < 0.
FSqrt(x) ==
    IF x.nan \/ x.m < 0 THEN NaN
    ELSE IF x.m = 0 THEN Zero
    ELSE LET k0 == 2 * MantissaBits + 2
             k  == IF (x.e - k0) % 2 = 0 THEN k0 ELSE k0 + 1
             N  == x.m * Pow2(k)
             r  == ISqrt(N)
             Q  == 2 * r + (IF r * r = N THEN 0 ELSE 1)
         IN  RoundHE(Q, ((x.e - k) \div 2) - 1)

\* x < y and x > y; false when either is NaN.
FLess(x, y) == ~x.nan /\ ~y.nan /\ ExactSub(x, y) < 0

FGreater(x, y) == FLess(y, x)

(***************************************************************************)
(* numpy reductions over a sequence of floats.                             *)
(***************************************************************************)
\* res += a[i] for i from lo to hi.
RECURSIVE AddEach(_, _, _, _)
AddEach(a, lo, hi, res) ==
    IF lo > hi THEN res ELSE AddEach(a, lo + 1, hi, FAdd(res, a[lo]))

\* r[j] += a[i + j] for the blocks of 8 from position i up to position last.
RECURSIVE AddLane(_, _, _, _)
AddLane(a, i, last, r) ==
    IF i > last THEN r ELSE AddLane(a, i + 8, last, FAdd(r, a[i]))

\* numpy's pairwise sum of the n elements after position lo: one after the
\* other for n < 8, in 8 lanes up to the block size of 128, in halves
\* above it.
RECURSIVE pairwise_sum(_, _, _)
pairwise_sum(a, lo, n) ==
    IF n < 8 THEN AddEach(a, lo + 1, lo + n, Zero)
    ELSE IF n <= 128
    THEN LET full == n - (n % 8)
             r(j) == AddLane(a, lo + 8 + j, lo + full, a[lo + j])
             res == FAdd(FAdd(FAdd(r(1), r(2)), FAdd(r(3), r(4))),
                         FAdd(FAdd(r(5), r(6)), FAdd(r(7), r(8))))
         IN  AddEach(a, lo + full + 1, lo + n, res)
    ELSE LET half == n \div 2
             n2 == half - (half % 8)
         IN  FAdd(pairwise_sum(a, lo, n2), pairwise_sum(a, lo + n2, n - n2))

\* np.add.reduce
np_sum(a) == pairwise_sum(a, 0, Len(a))

\* np.mean: NaN (and a warning) for the empty array.
np_mean(a) ==
    IF a = <<>> THEN NaN ELSE FDiv(np_sum(a), FromInt(Len(a)))

\* sqrt(mean(|a - arrmean|^2))
std_about(a, arrmean) ==
    LET x2 == [i \in 1..Len(a) |->
                  LET x == FSub(a[i], arrmean) IN FMul(x, x)]
    IN  FSqrt(FDiv(np_sum(x2), FromInt(Len(a))))

\* np.std with ddof = 0: sqrt(mean(|a - mean(a)|^2)), the mean taken once.
np_std(a) ==
    IF a = <<>> THEN NaN
    ELSE CHOOSE s \in {std_about(a, arrmean) : arrmean \in {np_mean(a)}} : TRUE

FMin(x, y) == IF x.nan \/ y.nan THEN NaN ELSE IF FLess(y, x) THEN y ELSE x

FMax(x, y) == IF x.nan \/ y.nan THEN NaN ELSE IF FLess(x, y) THEN y ELSE x

\* np.min / np.max of a non-empty array (the empty array raises ValueError):
\* the least / greatest of the elements after position lo up to hi, NaN
\* when one of them is NaN.
RECURSIVE MinOf(_, _, _)
MinOf(a, lo, hi) ==
    IF hi - lo = 1 THEN a[hi]
    ELSE FMin(MinOf(a, lo, (lo + hi) \div 2), MinOf(a, (lo + hi) \div 2, hi))

RECURSIVE MaxOf(_, _, _)
MaxOf(a, lo, hi) ==
    IF hi - lo = 1 THEN a[hi]
    ELSE FMax(MaxOf(a, lo, (lo + hi) \div 2), MaxOf(a, (lo + hi) \div 2, hi))

np_min(a) == MinOf(a, 0, Len(a))

np_max(a) == MaxOf(a, 0, Len(a))

HasNaN(a) == \E i \in 1..Len(a) : a[i].nan

\* The k-th smallest element of a NaN-free array.
KthSmallest(a, k) ==
    LET i == CHOOSE j \in 1..Len(a) :
                 /\ Cardinality({h \in 1..Len(a) : FLess(a[h], a[j])}) < k
                 /\ Cardinality({h \in 1..Len(a) : ~FLess(a[j], a[h])}) >= k
    IN  a[i]

\* np.median: NaN for the empty array or when a value is NaN.
np_median(a) ==
    IF a = <<>> \/ HasNaN(a) THEN NaN
    ELSE IF Len(a) % 2 = 1 THEN KthSmallest(a, (Len(a) + 1) \div 2)
    ELSE np_mean(<<KthSmallest(a, Len(a) \div 2), KthSmallest(a, Len(a) \div 2 + 1)>>)

(***************************************************************************)
(* The CSV file.  A numeric field of the file is text: a number, or text   *)
(* that is no number.  A p-value is kept in percent (5 is 0.05).           *)
(***************************************************************************)
GRAPHQL == "graphql"
REST == "rest"

Num(i) == [numeric |-> TRUE, value |-> FromInt(i)]
Malformed == [numeric |-> FALSE, value |-> Zero]

\* The (repository_owner, repository_name, query_type) keys, in sorted order.
KeySeq == << <<"o1", "r1", "complex">>, <<"o1", "r1", "simple">>, <<"o2", "r1", "simple">> >>

\* The measurements a row can carry.
Ok1  == [success |-> TRUE,  response_time_ms |-> Num(1),    response_size_bytes |-> Num(8)]
Ok8  == [success |-> TRUE,  response_time_ms |-> Num(8),    response_size_bytes |-> Num(1)]
Bad  == [success |-> TRUE,  response_time_ms |-> Malformed, response_size_bytes |-> Num(1)]
Fail == [success |-> FALSE, response_time_ms |-> Num(1),    response_size_bytes |-> Num(8)]

\* The rows of one key under one API: any of these for the first key, one
\* successful row at most for the other keys.
RichCells == {<<>>, <<Ok1>>, <<Ok8>>, <<Bad>>, <<Fail>>, <<Ok1, Ok8>>, <<Ok8, Fail>>}

CellChoices(k, api) ==
    IF k = 1 THEN RichCells
    ELSE IF k = 2 /\ api = GRAPHQL THEN {<<>>, <<Ok1>>, <<Ok8>>}
    ELSE IF api = GRAPHQL THEN {<<>>, <<Ok8>>}
    ELSE {<<>>, <<Ok1>>}

MakeRow(key, api, meas) ==
    [repository_owner    |-> key[1],
     repository_name     |-> key[2],
     query_type          |-> key[3],
     api_type            |-> api,
     success             |-> meas.success,
     response_time_ms    |-> meas.response_time_ms,
     response_size_bytes |-> meas.response_size_bytes]

MakeRows(key, api, cell) == [i \in 1..Len(cell) |-> MakeRow(key, api, cell[i])]

\* The file whose rows are, key after key, the GraphQL and the REST cell.
RECURSIVE MakeCsv(_, _, _)
MakeCsv(g, r, k) ==
    IF k = 0 THEN <<>>
    ELSE MakeCsv(g, r, k - 1) \o MakeRows(KeySeq[k], GRAPHQL, g[k])
                              \o MakeRows(KeySeq[k], REST, r[k])

\* One cell for every key.
Columns(api) ==
    {c \in [1..Len(KeySeq) -> RichCells] :
        \A k \in 1..Len(KeySeq) : c[k] \in CellChoices(k, api)}

Datasets == {MakeCsv(g, r, Len(KeySeq)) : g \in Columns(GRAPHQL), r \in Columns(REST)}

(***************************************************************************)
(* p-values: NaN or a number of percent.                                   *)
(***************************************************************************)
PVal(i) == [nan |-> FALSE, pct |-> i]
PNaN == [nan |-> TRUE, pct |-> 0]
PLess(p, q) == ~p.nan /\ ~q.nan /\ p.pct < q.pct
PGreater(p, q) == PLess(q, p)

\* The significance level 0.05 and the p-values 1.0 and 0.0.
Alpha == PVal(5)
POne == PVal(100)
PZero == PVal(0)

\* Most values test_normality hands to shapiro.
SampleCap == 5000

(***************************************************************************)
(* What the scipy routines can answer.                                     *)
(***************************************************************************)
Answer(p) == [raises |-> FALSE, p |-> p]
Raises == [raises |-> TRUE, p |-> PNaN]
NotCalled == [raises |-> FALSE, p |-> PNaN]

\* shapiro(sample), len(sample) >= 3: a p-value (NaN or 1.0 when a value is
\* NaN, by the scipy version), or an exception.
ShapiroAnswers(sample) ==
    {Raises} \cup {Answer(p) : p \in IF HasNaN(sample) THEN {PNaN, POne}
                                     ELSE {Alpha, PVal(6)}}

AllEqual(a) == \A i \in 1..Len(a) : a[i] = a[1]

Differences(x, y) == [i \in 1..Len(x) |-> FSub(x[i], y[i])]

\* ttest_rel(x, y), len(x) = len(y) >= 2: NaN when a value is NaN, NaN or 0
\* when the differences have no spread, else a p-value.
TTestAnswers(x, y) ==
    IF HasNaN(x) \/ HasNaN(y) THEN {Answer(PNaN)}
    ELSE IF AllEqual(Differences(x, y)) THEN {Answer(PNaN), Answer(PZero)}
    ELSE {Answer(PVal(1)), Answer(Alpha)}

\* wilcoxon(x, y, alternative='two-sided'): when every difference is zero it
\* raises ValueError or answers NaN or 1.0, by the scipy version; NaN when a
\* value is NaN; else a p-value.
WilcoxonAnswers(x, y) ==
    IF HasNaN(x) \/ HasNaN(y) THEN {Answer(PNaN)}
    ELSE IF \A i \in 1..Len(x) : x[i] = y[i] THEN {Raises, Answer(PNaN), Answer(POne)}
    ELSE {Answer(PVal(1)), Answer(Alpha)}

(***************************************************************************)
(* load_data                                                               *)
(***************************************************************************)
\* pd.to_numeric(errors='coerce')
to_numeric(field) == IF field.numeric THEN field.value ELSE NaN

\* load_data without the filter on success.
load_data_all(file) ==
    [i \in 1..Len(file) |->
        [file[i] EXCEPT !.response_time_ms    = to_numeric(@),
                        !.response_size_bytes = to_numeric(@)]]

\* df = df[df['success'] == True], then the two columns converted.
load_data(file) ==
    LET ok == SelectSeq(file, LAMBDA row : row.success = TRUE)
    IN  [i \in 1..Len(ok) |->
            [ok[i] EXCEPT !.response_time_ms    = to_numeric(@),
                          !.response_size_bytes = to_numeric(@)]]

(***************************************************************************)
(* test_normality                                                          *)
(***************************************************************************)
\* data.sample(min(5000, len(data))) if len(data) > 5000 else data; pick is
\* the random choice of the positions kept.
Subsample(data, pick) ==
    IF Len(data) > SampleCap
    THEN SubSeq([i \in 1..Len(pick) |-> data[pick[i]]], 1, Len(pick)) ELSE data

\* Two of the draws data.sample can make of a sample above the limit: the
\* first and the last SampleCap positions.
Picks(data) ==
    IF Len(data) > SampleCap
    THEN {SubSeq([i \in 1..Len(data) |-> i], 1, SampleCap),
          SubSeq([i \in 1..Len(data) |-> i], Len(data) - SampleCap + 1, Len(data))}
    ELSE {<<>>}

\* test_normality with the sample size limit at 2.
test_normality_two(data, pick, answer) ==
    IF Len(data) < 2
    THEN [is_normal |-> FALSE, p_value |-> POne, shapiro |-> <<>>]
    ELSE LET sample == Subsample(data, pick)
         IN  IF answer.raises
             THEN [is_normal |-> FALSE, p_value |-> PZero, shapiro |-> <<sample>>]
             ELSE [is_normal |-> PGreater(answer.p, Alpha), p_value |-> answer.p,
                   shapiro |-> <<sample>>]

\* test_normality with p_value >= 0.05 classified normal.
test_normality_geq(data, pick, answer) ==
    IF Len(data) < 3
    THEN [is_normal |-> FALSE, p_value |-> POne, shapiro |-> <<>>]
    ELSE LET sample == Subsample(data, pick)
         IN  IF answer.raises
             THEN [is_normal |-> FALSE, p_value |-> PZero, shapiro |-> <<sample>>]
             ELSE [is_normal |-> ~PLess(answer.p, Alpha) /\ ~answer.p.nan,
                   p_value |-> answer.p, shapiro |-> <<sample>>]

\* (is_normal, p_value), and the samples handed to shapiro.
test_normality(data, pick, answer) ==
    IF Len(data) < 3
    THEN [is_normal |-> FALSE, p_value |-> POne, shapiro |-> <<>>]
    ELSE LET sample == Subsample(data, pick)
         IN  IF answer.raises
             THEN [is_normal |-> FALSE, p_value |-> PZero, shapiro |-> <<sample>>]
             ELSE [is_normal |-> PGreater(answer.p, Alpha), p_value |-> answer.p,
                   shapiro |-> <<sample>>]

(***************************************************************************)
(* analyze_rq1 / analyze_rq2 of ExperimentAnalyzer and of                  *)
(* GraphQLvsRESTReportGenerator                                            *)
(***************************************************************************)
ExperimentAnalyzer == "ExperimentAnalyzer"
ReportGenerator == "GraphQLvsRESTReportGenerator"
Classes == {ExperimentAnalyzer, ReportGenerator}

RQ1 == "analyze_rq1"
RQ2 == "analyze_rq2"

\* The column an analysis reads.
Metric(op) == IF op = RQ1 THEN "response_time_ms" ELSE "response_size_bytes"

RowKey(row) == <<row.repository_owner, row.repository_name, row.query_type>>

\* rows[rows['api_type'] == api][col].values
ColumnValues(rows, api, col) ==
    LET sel == SelectSeq(rows, LAMBDA row : row.api_type = api)
    IN  SubSeq([i \in 1..Len(sel) |-> sel[i][col]], 1, Len(sel))

\* PairedGroup with the first value of each API in place of the mean.
PairedGroup_first(key, g, r) ==
    [repository   |-> <<key[1], key[2]>>,
     query_type   |-> key[3],
     graphql_mean |-> g[1],
     rest_mean    |-> r[1],
     difference   |-> FSub(g[1], r[1])]

\* One entry of results: appended when the key has values of both APIs.
PairedGroup(key, g, r) ==
    [repository   |-> <<key[1], key[2]>>,
     query_type   |-> key[3],
     graphql_mean |-> np_mean(g),
     rest_mean    |-> np_mean(r),
     difference   |-> FSub(np_mean(g), np_mean(r))]

\* both_present with a key kept when one API has values.
either_present(g, r) == Len(g) > 0 \/ Len(r) > 0

\* if len(graphql_times) > 0 and len(rest_times) > 0
both_present(g, r) == Len(g) > 0 /\ Len(r) > 0

\* The loop over df.groupby([...]): the keys in sorted order, up to the k-th.
RECURSIVE paired_groups(_, _, _)
paired_groups(d, col, k) ==
    IF k = 0 THEN <<>>
    ELSE LET group == SelectSeq(d, LAMBDA row : RowKey(row) = KeySeq[k])
             g     == ColumnValues(group, GRAPHQL, col)
             r     == ColumnValues(group, REST, col)
             head  == paired_groups(d, col, k - 1)
         IN  IF both_present(g, r)
             THEN Append(head, PairedGroup(KeySeq[k], g, r))
             ELSE head

\* The descriptive statistics of one pooled sample (non-empty).
describe(a) ==
    [mean   |-> np_mean(a),
     median |-> np_median(a),
     std    |-> np_std(a),
     min    |-> np_min(a),
     max    |-> np_max(a),
     count  |-> Len(a)]

NoStats == [mean |-> NaN, median |-> NaN, std |-> NaN, min |-> NaN, max |-> NaN,
            count |-> 0]

TTest == "Teste t pareado"
Wilcoxon == "Teste de Wilcoxon"
NoTest == "N/A"

\* select_test with the t-test run as soon as one sample is normal.
select_test_any(graphql_normal, rest_normal) ==
    IF graphql_normal \/ rest_normal THEN TTest ELSE Wilcoxon

\* The test run on more than one pair.
select_test(graphql_normal, rest_normal) ==
    IF graphql_normal /\ rest_normal THEN TTest ELSE Wilcoxon

TestAnswers(test_name, x, y) ==
    IF test_name = TTest THEN TTestAnswers(x, y) ELSE WilcoxonAnswers(x, y)

\* np.std with ddof = 1.
np_std_sample(a) ==
    LET arrmean == np_mean(a)
        x  == [i \in 1..Len(a) |-> FSub(a[i], arrmean)]
        x2 == [i \in 1..Len(a) |-> FMul(x[i], x[i])]
    IN  FSqrt(FDiv(np_sum(x2), FromInt(Len(a) - 1)))

\* effect_size with the sample standard deviation.
effect_size_sample(paired_differences) ==
    LET mean_diff == np_mean(paired_differences)
        std_diff  == np_std_sample(paired_differences)
    IN  IF FGreater(std_diff, Zero) THEN FDiv(mean_diff, std_diff) ELSE Zero

\* Cohen's d of the paired differences (more than one).
effect_size(paired_differences) ==
    LET mean_diff == np_mean(paired_differences)
        std_diff  == np_std(paired_differences)
    IN  IF FGreater(std_diff, Zero) THEN FDiv(mean_diff, std_diff) ELSE Zero

NoDifference == "Nao ha diferenca significativa entre GraphQL e REST"

GraphQLBetter(op) ==
    IF op = RQ1 THEN "GraphQL e significativamente mais rapido que REST"
    ELSE "GraphQL produz respostas significativamente menores que REST"

RESTBetter(op) ==
    IF op = RQ1 THEN "REST e significativamente mais rapido que GraphQL"
    ELSE "REST produz respostas significativamente menores que GraphQL"

Insufficient(cls) ==
    IF cls = ExperimentAnalyzer THEN "Dados insuficientes para analise estatistica"
    ELSE "Dados insuficientes"

conclude_leq(op, p_value, mean_diff) ==
    IF ~PGreater(p_value, Alpha) /\ ~p_value.nan
    THEN IF FLess(mean_diff, Zero) THEN GraphQLBetter(op) ELSE RESTBetter(op)
    ELSE NoDifference

\* The interpretation of a test's p-value.
conclude(op, p_value, mean_diff) ==
    IF PLess(p_value, Alpha)
    THEN IF FLess(mean_diff, Zero) THEN GraphQLBetter(op) ELSE RESTBetter(op)
    ELSE NoDifference

\* The keys of the dict an analysis returns.
ResultKeys(cls, op) ==
    {"graphql_stats", "rest_stats", "test_name", "p_value", "cohens_d", "conclusion"}
    \cup (IF cls = ExperimentAnalyzer
          THEN {"mean_difference", IF op = RQ1 THEN "graphql_faster" ELSE "graphql_smaller"}
          ELSE {"graphql_normal", "rest_normal", "graphql_p", "rest_p"})

NoResult ==
    [status |-> "none", error |-> "", cls |-> "", op |-> "", keys |-> {},
     graphql_stats |-> NoStats, rest_stats |-> NoStats,
     test_name |-> NoTest, p_value |-> PNaN, cohens_d |-> NaN, conclusion |-> "",
     mean_difference |-> NaN, graphql_better |-> FALSE, by_type |-> <<>>]

NoVerdict == [is_normal |-> FALSE, p_value |-> PNaN, shapiro |-> <<>>]

\* What an analysis did on the way: the paired groups, the samples tested
\* for normality and their verdicts, and the call of the statistical test.
NoTrace ==
    [results |-> <<>>, all_graphql |-> <<>>, all_rest |-> <<>>,
     graphql_verdict |-> NoVerdict, rest_verdict |-> NoVerdict,
     test |-> "", x |-> <<>>, y |-> <<>>]

Raised(cls, op, error) ==
    [NoResult EXCEPT !.status = "raised", !.error = error, !.cls = cls, !.op = op]

\* prepare with the pooled samples taken from the rows of the paired keys
\* only.
prepare_paired(op, d) ==
    LET col         == Metric(op)
        results     == paired_groups(d, col, Len(KeySeq))
        has(key, api) == \E i \in 1..Len(d) : RowKey(d[i]) = key /\ d[i].api_type = api
        paired      == SelectSeq(d, LAMBDA row : has(RowKey(row), GRAPHQL)
                                                  /\ has(RowKey(row), REST))
        all_graphql == ColumnValues(paired, GRAPHQL, col)
        all_rest    == ColumnValues(paired, REST, col)
        paired_differences == [i \in 1..Len(results) |-> results[i].difference]
        empty       == all_graphql = <<>> \/ all_rest = <<>>
    IN  [results       |-> results,
         all_graphql   |-> all_graphql,
         all_rest      |-> all_rest,
         raises        |-> empty,
         graphql_stats |-> IF empty THEN NoStats ELSE describe(all_graphql),
         rest_stats    |-> IF empty THEN NoStats ELSE describe(all_rest),
         paired_differences |-> paired_differences,
         x             |-> [i \in 1..Len(results) |-> results[i].graphql_mean],
         y             |-> [i \in 1..Len(results) |-> results[i].rest_mean],
         many          |-> Len(paired_differences) > 1,
         mean_diff     |-> np_mean(paired_differences),
         cohens_d      |-> IF Len(paired_differences) > 1
                           THEN effect_size(paired_differences) ELSE Zero]

\* What an analysis computes from the dataframe d before any scipy routine
\* runs: the paired groups, the pooled samples and their statistics.
prepare(op, d) ==
    LET col         == Metric(op)
        results     == paired_groups(d, col, Len(KeySeq))
        all_graphql == ColumnValues(d, GRAPHQL, col)
        all_rest    == ColumnValues(d, REST, col)
        paired_differences == [i \in 1..Len(results) |-> results[i].difference]
        empty       == all_graphql = <<>> \/ all_rest = <<>>
    IN  [results       |-> results,
         all_graphql   |-> all_graphql,
         all_rest      |-> all_rest,
         \* np.min of an empty array raises ValueError
         raises        |-> empty,
         graphql_stats |-> IF empty THEN NoStats ELSE describe(all_graphql),
         rest_stats    |-> IF empty THEN NoStats ELSE describe(all_rest),
         paired_differences |-> paired_differences,
         x             |-> [i \in 1..Len(results) |-> results[i].graphql_mean],
         y             |-> [i \in 1..Len(results) |-> results[i].rest_mean],
         many          |-> Len(paired_differences) > 1,
         mean_diff     |-> np_mean(paired_differences),
         cohens_d      |-> IF Len(paired_differences) > 1
                           THEN effect_size(paired_differences) ELSE Zero]

\* The rest of the analysis, given the draws of the two subsamples (pg, pr),
\* the answers of shapiro for the two pooled samples (ag, ar) and of the
\* selected test (at).
finish(cls, op, pre, pg, pr, ag, ar, at) ==
    LET seen == [NoTrace EXCEPT !.results = pre.results,
                                !.all_graphql = pre.all_graphql,
                                !.all_rest = pre.all_rest]
    IN  IF pre.raises
        THEN [ret |-> Raised(cls, op, "ValueError"), trace |-> seen]
        ELSE
        LET vg        == test_normality(pre.all_graphql, pg, ag)
            vr        == test_normality(pre.all_rest, pr, ar)
            test_name == select_test(vg.is_normal, vr.is_normal)
            tested    == [seen EXCEPT !.graphql_verdict = vg, !.rest_verdict = vr,
                                      !.test = IF pre.many THEN test_name ELSE "",
                                      !.x = IF pre.many THEN pre.x ELSE <<>>,
                                      !.y = IF pre.many THEN pre.y ELSE <<>>]
        IN  IF pre.many /\ at.raises
            THEN [ret |-> Raised(cls, op, "ValueError"), trace |-> tested]
            ELSE
            [ret |->
               [status |-> "returned", error |-> "", cls |-> cls, op |-> op,
                keys |-> ResultKeys(cls, op),
                graphql_stats |-> pre.graphql_stats,
                rest_stats    |-> pre.rest_stats,
                test_name     |-> IF pre.many THEN test_name ELSE NoTest,
                p_value       |-> IF pre.many THEN at.p ELSE POne,
                cohens_d      |-> pre.cohens_d,
                conclusion    |-> IF pre.many THEN conclude(op, at.p, pre.mean_diff)
                                  ELSE Insufficient(cls),
                mean_difference |-> IF pre.paired_differences # <<>>
                                    THEN pre.mean_diff ELSE Zero,
                graphql_better  |-> IF pre.paired_differences # <<>>
                                    THEN FLess(pre.mean_diff, Zero) ELSE FALSE,
                by_type         |-> <<>>],
             trace |-> tested]

\* The whole of analyze_rq1 / analyze_rq2 on the dataframe d.
analyze(cls, op, d, pg, pr, ag, ar, at) ==
    finish(cls, op, prepare(op, d), pg, pr, ag, ar, at)

\* The answers the routines can give during an analysis that drew the
\* subsamples pg and pr.
AnswersFor(pre, pg, pr) ==
    LET SG == IF Len(pre.all_graphql) >= 3 /\ ~pre.raises
              THEN ShapiroAnswers(Subsample(pre.all_graphql, pg)) ELSE {NotCalled}
        SR == IF Len(pre.all_rest) >= 3 /\ ~pre.raises
              THEN ShapiroAnswers(Subsample(pre.all_rest, pr)) ELSE {NotCalled}
        T(ag, ar) ==
            IF pre.many
            THEN TestAnswers(
                   select_test(test_normality(pre.all_graphql, pg, ag).is_normal,
                               test_normality(pre.all_rest, pr, ar).is_normal),
                   pre.x, pre.y)
            ELSE {NotCalled}
    IN  UNION {{<<ag, ar, at>> : at \in T(ag, ar)} : ag \in SG, ar \in SR}

(***************************************************************************)
(* analyze_by_query_type                                                   *)
(***************************************************************************)
BY_TYPE == "analyze_by_query_type"

QueryTypes == <<"simple", "complex", "multiple">>

\* np.mean(values) if len(values) > 0 else 0
MeanOrZero(a) == IF Len(a) > 0 THEN np_mean(a) ELSE Zero

\* results_by_type, for the query types up to the k-th: one entry for every
\* type that has rows.
RECURSIVE by_query_type(_, _)
by_query_type(d, k) ==
    IF k = 0 THEN <<>>
    ELSE LET type_data == SelectSeq(d, LAMBDA row : row.query_type = QueryTypes[k])
             head      == by_query_type(d, k - 1)
         IN  IF Len(type_data) > 0
             THEN Append(head,
                    [query_type        |-> QueryTypes[k],
                     graphql_time_mean |->
                        MeanOrZero(ColumnValues(type_data, GRAPHQL, "response_time_ms")),
                     rest_time_mean    |->
                        MeanOrZero(ColumnValues(type_data, REST, "response_time_ms")),
                     graphql_size_mean |->
                        MeanOrZero(ColumnValues(type_data, GRAPHQL, "response_size_bytes")),
                     rest_size_mean    |->
                        MeanOrZero(ColumnValues(type_data, REST, "response_size_bytes"))])
             ELSE head

analyze_by_query_type(cls, d) ==
    [NoResult EXCEPT !.status = "returned", !.cls = cls, !.op = BY_TYPE,
                     !.keys = {QueryTypes[k] : k \in {j \in 1..Len(QueryTypes) :
                                  \E i \in 1..Len(d) : d[i].query_type = QueryTypes[j]}},
                     !.by_type = by_query_type(d, Len(QueryTypes))]

(***************************************************************************)
(* generate_experiment_report.py, generate_markdown_report: the magnitude  *)
(* of the effect named in the interpretation paragraphs.                   *)
(***************************************************************************)
\* abs(d)
FAbs(x) == IF x.nan THEN x ELSE [x EXCEPT !.m = Abs(x.m)]

\* The literal num/den, rounded to the format.
Literal(num, den) == FDiv(FromInt(num), FromInt(den))

\* The magnitude with the bands closed above.
effect_band_closed(d) ==
    LET a == FAbs(d)
        Leq(x, y) == FLess(x, y) \/ x = y
    IN  IF Leq(a, Literal(1, 5)) THEN "muito pequeno"
        ELSE IF Leq(a, Literal(1, 2)) THEN "pequeno"
        ELSE IF Leq(a, Literal(4, 5)) THEN "medio"
        ELSE "grande"

\* 'muito pequeno' if abs(d) < 0.2 else 'pequeno' if abs(d) < 0.5 else
\* 'medio' if abs(d) < 0.8 else 'grande'
effect_band(d) ==
    LET a == FAbs(d)
    IN  IF FLess(a, Literal(1, 5)) THEN "muito pequeno"
        ELSE IF FLess(a, Literal(1, 2)) THEN "pequeno"
        ELSE IF FLess(a, Literal(4, 5)) THEN "medio"
        ELSE "grande"

\* The values of cohens_d the bands are rendered for: zero and the numbers
\* of the format from 1/16 to 4, of both signs.
EffectValues ==
    {Zero} \cup
    {Norm(sg * m, e) : sg \in {-1, 1},
                       m \in Pow2(MantissaBits - 1)..(Pow2(MantissaBits) - 1),
                       e \in (0 - MantissaBits - 3)..(2 - MantissaBits)}

(***************************************************************************)
(* generate_report.py: calculate_correlations, format_correlation_table    *)
(* and get_main_finding.  A coefficient is NaN or a number of hundredths   *)
(* (30 is 0.30), like a p-value.                                           *)
(***************************************************************************)
RVal(i) == [nan |-> FALSE, pct |-> i]
RNaN == [nan |-> TRUE, pct |-> 0]

\* abs(r)
RAbs(r) == IF r.nan THEN r ELSE RVal(Abs(r.pct))

\* r < i/100 and r > i/100, false for NaN.
RBelow(r, i) == ~r.nan /\ r.pct < i
RAbove(r, i) == ~r.nan /\ r.pct > i

PR_STATUS == "pr_status_binary"
PR_REVIEWS == "pr_reviews_count"

\* The lists of outcome metrics a call can be given.
QualityLists == {<<PR_STATUS>>, <<PR_REVIEWS>>, <<PR_STATUS, PR_REVIEWS>>,
                 <<PR_REVIEWS, PR_STATUS>>}

\* Most rows of the dataframe handed to calculate_correlations.
MaxPairs == 12

\* The fewest valid values for which the routines are called, less one.
MinPairs == 10

\* valid_data = df.dropna(subset=...): every row is a valid pair; rows is
\* their number, columns the outcome columns the dataframe has.
Frames ==
    {[rows |-> n, columns |-> c] :
        n \in 0..MaxPairs, c \in {{PR_STATUS, PR_REVIEWS}, {PR_STATUS}}}

\* data[quality_metric].notna().sum()
notna_sum(frame, quality_metric) == frame.rows

Coefficient(r, p) == [correlation |-> r, p_value |-> p]

\* pearsonr(x, y) on more than 10 pairs: (NaN, NaN) when a column is
\* constant; r = 0 has p = 1; else a coefficient and a p-value.
PearsonAnswers ==
    {Coefficient(RNaN, PNaN), Coefficient(RVal(0), POne)}
    \cup {Coefficient(RVal(r), p) :
             r \in {9, 10, 29, 30, 49, 50, 69, 70, -50, -70}, p \in {PVal(1), Alpha}}

\* spearmanr(x, y), likewise.
SpearmanAnswers ==
    {Coefficient(RNaN, PNaN), Coefficient(RVal(20), PVal(1)), Coefficient(RVal(20), PVal(30))}

NoCorrelation == Coefficient(RVal(0), POne)

\* The routines are called when the column has 10 valid values or more.
enough_pairs_geq(frame, quality_metric) ==
    quality_metric \in frame.columns /\ notna_sum(frame, quality_metric) >= MinPairs

\* quality_metric in data.columns and data[quality_metric].notna().sum() > 10
enough_pairs(frame, quality_metric) ==
    quality_metric \in frame.columns /\ notna_sum(frame, quality_metric) > MinPairs

\* What calculate_correlations can return for the metrics up to the k-th of
\* the list, with the routines it called: a set of [correlations, calls].
RECURSIVE calculate_correlations(_, _, _)
calculate_correlations(frame, metrics, k) ==
    IF k = 0 THEN {[correlations |-> <<>>, calls |-> <<>>]}
    ELSE LET quality_metric == metrics[k]
             head == calculate_correlations(frame, metrics, k - 1)
         IN  IF enough_pairs(frame, quality_metric)
             THEN {[correlations |->
                       Append(h.correlations,
                              [metric |-> quality_metric, pearson |-> pa, spearman |-> sa]),
                    calls |-> h.calls \o <<"pearsonr", "spearmanr">>] :
                      h \in head, pa \in PearsonAnswers, sa \in SpearmanAnswers}
             ELSE {[correlations |->
                       Append(h.correlations,
                              [metric |-> quality_metric, pearson |-> NoCorrelation,
                               spearman |-> NoCorrelation]),
                    calls |-> h.calls] : h \in head}

Unreliable(label) == [text |-> label, reliable |-> FALSE]
Reliable(label) == [text |-> label, reliable |-> TRUE]

\* The interpretation column: the label and whether it lacks the mark
\* '(nao confiavel)'.
Label(magnitude, is_significant) ==
    IF RBelow(magnitude, 10)
    THEN IF is_significant THEN Reliable("Correlacao detectavel")
         ELSE Reliable("Correlacao inexistente")
    ELSE IF RBelow(magnitude, 30)
    THEN IF is_significant THEN Reliable("Correlacao fraca")
         ELSE Unreliable("Correlacao fraca")
    ELSE IF RBelow(magnitude, 50)
    THEN IF is_significant THEN Reliable("Correlacao moderada")
         ELSE Unreliable("Correlacao moderada")
    ELSE IF RBelow(magnitude, 70)
    THEN IF is_significant THEN Reliable("Correlacao forte")
         ELSE Unreliable("Correlacao forte")
    ELSE IF is_significant THEN Reliable("Correlacao muito forte")
         ELSE Unreliable("Correlacao muito forte")

\* The interpretation with the bands closed above.
interpretation_closed(corr_data) ==
    LET magnitude == RAbs(corr_data.pearson.correlation)
    IN  Label(IF magnitude.nan THEN magnitude ELSE RVal(magnitude.pct - 1),
              PLess(corr_data.pearson.p_value, Alpha))

\* The interpretation with the significance of the rank coefficient.
interpretation_rank(corr_data) ==
    Label(RAbs(corr_data.pearson.correlation), PLess(corr_data.spearman.p_value, Alpha))

\* magnitude = abs(pearson_r); is_significant = pearson_p < 0.05
interpretation(corr_data) ==
    Label(RAbs(corr_data.pearson.correlation), PLess(corr_data.pearson.p_value, Alpha))

\* The rows of the table, one for every entry of the mapping in its order.
format_correlation_table(corrs) ==
    [i \in 1..Len(corrs) |->
        [metric |-> corrs[i].metric,
         pearson |-> corrs[i].pearson,
         spearman |-> corrs[i].spearman,
         interpretation |-> interpretation(corrs[i])]]

NoneSignificant == [text |-> "Nenhuma correlacao significativa identificada",
                    metric |-> "", direction |-> "", r |-> RNaN]

Strongest(metric, r) ==
    [text |-> "Correlacao significativa mais forte",
     metric |-> metric,
     direction |-> IF RAbove(r, 0) THEN "positiva" ELSE "negativa",
     r |-> r]

\* The loop of get_main_finding over the first k entries: the strongest
\* significant entry so far (0 for none) and its magnitude.
\* The test of the loop without the significance.
stronger_any(pearson_r, pearson_p, strongest_value) ==
    RAbove(pearson_r, strongest_value.pct)

\* The test of the loop with an equal magnitude accepted.
stronger_or_equal(pearson_r, pearson_p, strongest_value) ==
    PLess(pearson_p, Alpha) /\ ~pearson_r.nan /\ ~RBelow(pearson_r, strongest_value.pct)

\* pearson_p < 0.05 and pearson_r > strongest_value
stronger(pearson_r, pearson_p, strongest_value) ==
    PLess(pearson_p, Alpha) /\ RAbove(pearson_r, strongest_value.pct)

RECURSIVE strongest(_, _)
strongest(corrs, k) ==
    IF k = 0 THEN [corr |-> 0, value |-> RVal(0)]
    ELSE LET before == strongest(corrs, k - 1)
             pearson_r == RAbs(corrs[k].pearson.correlation)
             pearson_p == corrs[k].pearson.p_value
         IN  IF stronger(pearson_r, pearson_p, before.value)
             THEN [corr |-> k, value |-> pearson_r]
             ELSE before

get_main_finding(corrs) ==
    LET found == strongest(corrs, Len(corrs))
    IN  IF found.corr # 0
        THEN Strongest(corrs[found.corr].metric, corrs[found.corr].pearson.correlation)
        ELSE NoneSignificant

\* The research questions analyze_hypothesis is asked about: one of those
\* that expect a positive correlation with the status, the one that expects
\* a negative correlation, one of those about the number of reviews.
HypothesisTypes == {"RQ01", "RQ02", "RQ05"}

\* What the loop of analyze_hypothesis appends for one entry of the mapping:
\* nothing unless pearson_p < 0.05, else the metric with the sign of the
\* correlation, marked when it contradicts the hypothesis.
significant_result(corr_data, hypothesis) ==
    LET pearson_r == corr_data.pearson.correlation
        pearson_p == corr_data.pearson.p_value
    IN  IF ~PLess(pearson_p, Alpha) THEN <<>>
        ELSE IF hypothesis = "RQ02"
        THEN IF RBelow(pearson_r, 0)
             THEN <<[metric |-> corr_data.metric, sign |-> "negativa", contradicts |-> FALSE]>>
             ELSE <<[metric |-> corr_data.metric, sign |-> "positiva", contradicts |-> TRUE]>>
        ELSE IF RAbove(pearson_r, 0)
             THEN <<[metric |-> corr_data.metric, sign |-> "positiva", contradicts |-> FALSE]>>
             ELSE <<[metric |-> corr_data.metric, sign |-> "negativa", contradicts |-> TRUE]>>

\* significant_results after the first k entries.
RECURSIVE significant_results(_, _, _)
significant_results(corrs, hypothesis, k) ==
    IF k = 0 THEN <<>>
    ELSE significant_results(corrs, hypothesis, k - 1)
         \o significant_result(corrs[k], hypothesis)

analyze_hypothesis(corrs, hypothesis) ==
    LET found == significant_results(corrs, hypothesis, Len(corrs))
    IN  IF found # <<>>
        THEN [text |-> "Parcialmente suportada", significant_results |-> found]
        ELSE [text |-> "Nao suportada", significant_results |-> <<>>]

NoFrame == [rows |-> 0, columns |-> {}]
NotComputed == [computed |-> FALSE, value |-> <<>>]
Computed(v) == [computed |-> TRUE, value |-> v]

(***************************************************************************)
(* The program: the two objects over one CSV file.  csv is the file, df    *)
(* the dataframe of the objects (both load the file the same way), result  *)
(* what the last analysis returned, trace what it did and lib what the     *)
(* scipy routines answered to it; data and verdict are the argument and    *)
(* the result of a direct call of test_normality.                          *)
(***************************************************************************)
VARIABLES csv, df, loaded, calls, result, trace, lib, data, verdict

\* The correlation study of generate_report.py: valid_data is the dataframe
\* handed to calculate_correlations and quality_metrics its list of outcome
\* metrics, correlations the mapping it returned, scipy_calls the routines
\* it called, table and finding what format_correlation_table and
\* get_main_finding made of the mapping.
VARIABLES valid_data, quality_metrics, correlations, scipy_calls, table, finding

studyVars == <<valid_data, quality_metrics, correlations, scipy_calls, table, finding>>

\* The experiment report: cohens_ds are the cohens_d of the RQ1 and of the
\* RQ2 result, bands the magnitudes the interpretation paragraphs name.
VARIABLES cohens_ds, bands

reportVars == <<cohens_ds, bands>>

\* The result of the analysis that ran before the last one.
VARIABLES previous

\* numpy's process-wide random generator: rng is its state; alone is the
\* verdict the last call of test_normality gets when no other call has used
\* the generator before it.
VARIABLES rng, alone

generatorVars == <<rng, alone>>

\* analyze_hypothesis of generate_report.py: the research question it was
\* asked about and the text it returned.
VARIABLES hypothesis_type, hypothesis

hypothesisVars == <<hypothesis_type, hypothesis>>

\* ExperimentCollector: repositories and num_replicas are the arguments of
\* run_experiment_trial, trial its position in the nested loops, api_order
\* the shuffled treatments of the current block, all_measurements its list,
\* failures the requests that failed so far; measurement is what the last
\* call of collect_measurement returned and responses what its requests got.
VARIABLES repositories, num_replicas, trial, api_order, all_measurements, failures,
          measurement, responses

collectorVars == <<repositories, num_replicas, trial, api_order, all_measurements,
                   failures, measurement, responses>>

\* GitHubAnalyzer.collect_pull_requests_data: selected and limit are its
\* arguments, paging its position in the loops, all_prs its list and
\* pulled what the call gave back.
VARIABLES selected, limit, paging, all_prs, pulled

pullVars == <<selected, limit, paging, all_prs, pulled>>

laterVars == <<collectorVars, pullVars>>

otherVars == <<generatorVars, hypothesisVars, laterVars>>

vars == <<csv, df, loaded, calls, result, trace, lib, data, verdict, studyVars,
          reportVars, previous, otherVars>>

GeneratorIdle ==
    /\ rng = 0
    /\ alone = <<>>

HypothesisIdle ==
    /\ hypothesis_type = ""
    /\ hypothesis = ""

CollectorIdle ==
    /\ repositories = <<>>
    /\ num_replicas = 0
    /\ trial = <<>>
    /\ api_order = <<>>
    /\ all_measurements = <<>>
    /\ failures = 0
    /\ measurement = <<>>
    /\ responses = <<>>

PullIdle ==
    /\ selected = <<>>
    /\ limit = 0
    /\ paging = <<>>
    /\ all_prs = <<>>
    /\ pulled = <<>>

LaterIdle ==
    /\ CollectorIdle
    /\ PullIdle

OthersIdle ==
    /\ GeneratorIdle
    /\ HypothesisIdle
    /\ LaterIdle

StudyIdle ==
    /\ valid_data = NoFrame
    /\ quality_metrics = <<>>
    /\ correlations = NotComputed
    /\ scipy_calls = <<>>
    /\ table = NotComputed
    /\ finding = NotComputed

ReportIdle ==
    /\ cohens_ds = <<>>
    /\ bands = <<>>

NoAnswers == [graphql |-> NotCalled, rest |-> NotCalled, test |-> NotCalled]

\* Most analyses run on one dataframe.
MaxCalls == 1

\* Most values of a sample handed to test_normality directly.
MaxSample == 4

Init ==
    /\ csv \in Datasets
    /\ df = <<>>
    /\ loaded = FALSE
    /\ calls = 0
    /\ result = NoResult
    /\ trace = NoTrace
    /\ lib = NoAnswers
    /\ data = <<>>
    /\ verdict = NoVerdict
    /\ StudyIdle
    /\ ReportIdle
    /\ OthersIdle
    /\ previous = NoResult

LoadData ==
    /\ df' = load_data(csv)
    /\ loaded' = TRUE
    /\ UNCHANGED <<csv, calls, result, trace, lib, data, verdict, studyVars, reportVars, previous, otherVars>>

\* main() runs the analyses once load_data has returned True.
Analyze(op) ==
    /\ loaded
    /\ calls < MaxCalls
    /\ calls' = calls + 1
    /\ \E pre \in {prepare(op, df)} :
          \E cls \in Classes, pg \in Picks(pre.all_graphql), pr \in Picks(pre.all_rest) :
             \E a \in AnswersFor(pre, pg, pr) :
                \E out \in {finish(cls, op, pre, pg, pr, a[1], a[2], a[3])} :
                   /\ result' = out.ret
                   /\ trace' = out.trace
                   /\ lib' = [graphql |-> a[1], rest |-> a[2], test |-> a[3]]
    /\ UNCHANGED <<csv, df, loaded, data, verdict, studyVars, reportVars, previous, otherVars>>

AnalyzeRq1 == Analyze(RQ1)

AnalyzeRq2 == Analyze(RQ2)

AnalyzeByQueryType ==
    /\ loaded
    /\ calls < MaxCalls
    /\ calls' = calls + 1
    /\ \E cls \in Classes : result' = analyze_by_query_type(cls, df)
    /\ trace' = NoTrace
    /\ lib' = NoAnswers
    /\ UNCHANGED <<csv, df, loaded, data, verdict, studyVars, reportVars, previous, otherVars>>

Next == LoadData \/ AnalyzeRq1 \/ AnalyzeRq2 \/ AnalyzeByQueryType

Spec == Init /\ [][Next]_vars

(***************************************************************************)
(* test_normality called on a sample of its own.                           *)
(***************************************************************************)
SampleValues == {FromInt(1), FromInt(8), NaN}

RECURSIVE SamplesOf(_)
SamplesOf(n) ==
    IF n = 0 THEN {<<>>}
    ELSE LET shorter == SamplesOf(n - 1)
         IN  shorter \cup {Append(a, v) : a \in {b \in shorter : Len(b) = n - 1},
                                          v \in SampleValues}

InitNormality ==
    /\ csv = <<>>
    /\ df = <<>>
    /\ loaded = FALSE
    /\ calls = 0
    /\ result = NoResult
    /\ trace = NoTrace
    /\ lib = NoAnswers
    /\ data \in SamplesOf(MaxSample)
    /\ verdict = NoVerdict
    /\ StudyIdle
    /\ ReportIdle
    /\ OthersIdle
    /\ previous = NoResult

TestNormality ==
    /\ calls < MaxCalls
    /\ calls' = calls + 1
    /\ \E pick \in Picks(data) :
          \E answer \in (IF Len(data) >= 3 THEN ShapiroAnswers(Subsample(data, pick))
                                               ELSE {NotCalled}) :
             /\ verdict' = test_normality(data, pick, answer)
             /\ lib' = [NoAnswers EXCEPT !.graphql = answer]
    /\ UNCHANGED <<csv, df, loaded, result, trace, data, studyVars, reportVars, previous, otherVars>>

NextNormality == TestNormality

SpecNormality == InitNormality /\ [][NextNormality]_vars

(***************************************************************************)
(* What the file says, read without the dataframe: the values of the       *)
(* successful rows, a field that is no number read as NaN.                 *)
(***************************************************************************)
FieldValue(field) == IF field.numeric THEN field.value ELSE NaN

CsvValuesOf(rows, col) == [i \in 1..Len(rows) |-> FieldValue(rows[i][col])]

CsvPooled(api, col) ==
    CsvValuesOf(SelectSeq(csv, LAMBDA row : row.success /\ row.api_type = api), col)

CsvValues(key, api, col) ==
    CsvValuesOf(SelectSeq(csv, LAMBDA row : /\ row.success
                                            /\ row.api_type = api
                                            /\ row.repository_owner = key[1]
                                            /\ row.repository_name = key[2]
                                            /\ row.query_type = key[3]), col)

\* An analysis of a research question has run; its column, groups and keys.
Ran == result.op \in {RQ1, RQ2}
Returned == Ran /\ result.status = "returned"
Col == Metric(result.op)
N == Len(trace.results)
KeyOf(entry) == <<entry.repository[1], entry.repository[2], entry.query_type>>
PairedDifferences == [i \in 1..N |-> trace.results[i].difference]

\* The exact sum of NaN-free values, as the integer multiple M of 2^e.
MinExp(a) == CHOOSE e \in {a[i].e : i \in 1..Len(a)} : \A i \in 1..Len(a) : e <= a[i].e

RECURSIVE ExactSumAt(_, _)
ExactSumAt(a, e) ==
    IF a = <<>> THEN 0
    ELSE ExactSumAt(SubSeq(a, 1, Len(a) - 1), e) + a[Len(a)].m * Pow2(a[Len(a)].e - e)

\* m is the arithmetic mean of the values: NaN when one of them is NaN, else
\* the float nearest to their sum divided by their number, whenever the sum
\* of the values is a float.
IsArithmeticMean(m, a) ==
    IF HasNaN(a) THEN m.nan
    ELSE LET e   == MinExp(a)
             sum == ExactSumAt(a, e)
         IN  RoundHE(sum, e) = np_sum(a) /\ BitLen(Abs(sum)) <= MantissaBits
                => m = FDiv([nan |-> FALSE, m |-> sum, e |-> e], FromInt(Len(a)))

(***************************************************************************)
(* C1: with more than one paired group, the paired t-test is run exactly   *)
(* when test_normality classified both pooled samples normal, the Wilcoxon *)
(* test otherwise; the test run is the test named in the result, and it    *)
(* receives the n per-group means of GraphQL and the n of REST.            *)
(***************************************************************************)
ClassifiedNormal(all, answer) ==
    Len(all) >= 3 /\ ~answer.raises /\ PGreater(answer.p, Alpha)

C1_TestSelection ==
    (Ran /\ N > 1) =>
        /\ trace.test \in {TTest, Wilcoxon}
        /\ trace.test = TTest <=>
              /\ ClassifiedNormal(trace.all_graphql, lib.graphql)
              /\ ClassifiedNormal(trace.all_rest, lib.rest)
        /\ result.status = "returned" => result.test_name = trace.test
        /\ Len(trace.x) = N /\ Len(trace.y) = N
        /\ \A i \in 1..N : /\ trace.x[i] = trace.results[i].graphql_mean
                           /\ trace.y[i] = trace.results[i].rest_mean

C1_Witness ==
    /\ Returned /\ N > 1
    /\ result.test_name = TTest
    /\ trace.graphql_verdict.is_normal /\ trace.rest_verdict.is_normal

(***************************************************************************)
(* C2: with at most one paired group the analysis runs no test and returns *)
(* p_value = 1.0, cohens_d = 0, test_name 'N/A' and the insufficient-data  *)
(* conclusion.                                                             *)
(***************************************************************************)
C2_InsufficientData ==
    (Ran /\ N <= 1) =>
        /\ result.status = "returned"
        /\ trace.test = ""
        /\ result.p_value = POne
        /\ result.cohens_d = Zero
        /\ result.test_name = NoTest
        /\ result.conclusion = Insufficient(result.cls)

(***************************************************************************)
(* C3: every paired group comes from a key that has successful values of   *)
(* both APIs, no key gives two groups, and the two lists handed to the     *)
(* test have the same length, position i of each being the mean of the     *)
(* i-th group's key.                                                       *)
(***************************************************************************)
C3_BothSides ==
    Ran =>
        /\ \A i \in 1..N :
              /\ CsvValues(KeyOf(trace.results[i]), GRAPHQL, Col) # <<>>
              /\ CsvValues(KeyOf(trace.results[i]), REST, Col) # <<>>
        /\ \A i, j \in 1..N :
              KeyOf(trace.results[i]) = KeyOf(trace.results[j]) => i = j
        /\ Len(trace.x) = Len(trace.y)
        /\ trace.test # "" =>
              /\ Len(trace.x) = N
              /\ \A i \in 1..N :
                    /\ trace.x[i] = np_mean(CsvValues(KeyOf(trace.results[i]), GRAPHQL, Col))
                    /\ trace.y[i] = np_mean(CsvValues(KeyOf(trace.results[i]), REST, Col))

C3_Witness ==
    /\ Ran /\ trace.test # ""
    /\ \E k \in 1..Len(KeySeq) :
          /\ CsvValues(KeySeq[k], GRAPHQL, Col) # <<>>
          /\ CsvValues(KeySeq[k], REST, Col) = <<>>
          /\ \A i \in 1..N : KeyOf(trace.results[i]) # KeySeq[k]

(***************************************************************************)
(* C4: after load_data the dataframe holds the successful rows of the file *)
(* and nothing of the others; the paired group means, the pooled samples,  *)
(* their statistics, the samples tested for normality and the means by     *)
(* query type are those of the successful rows alone, and no result names  *)
(* the rows left out.                                                      *)
(***************************************************************************)
RowsOfType(type) ==
    SelectSeq(csv, LAMBDA row : row.success /\ row.query_type = type)

TypeMean(type, api, col) ==
    LET a == CsvValuesOf(SelectSeq(RowsOfType(type), LAMBDA row : row.api_type = api), col)
    IN  IF a = <<>> THEN Zero ELSE np_mean(a)

C4_OnlySuccessful ==
    /\ loaded =>
          /\ Len(df) = Len(SelectSeq(csv, LAMBDA row : row.success))
          /\ \A i \in 1..Len(df) : df[i].success
    /\ Ran =>
          /\ trace.all_graphql = CsvPooled(GRAPHQL, Col)
          /\ trace.all_rest = CsvPooled(REST, Col)
          /\ \A i \in 1..N :
                /\ trace.results[i].graphql_mean
                      = np_mean(CsvValues(KeyOf(trace.results[i]), GRAPHQL, Col))
                /\ trace.results[i].rest_mean
                      = np_mean(CsvValues(KeyOf(trace.results[i]), REST, Col))
          /\ \A v \in {trace.graphql_verdict.shapiro, trace.rest_verdict.shapiro} :
                v \in {<<>>, <<CsvPooled(GRAPHQL, Col)>>, <<CsvPooled(REST, Col)>>}
          /\ result.status = "returned" =>
                /\ result.graphql_stats = describe(CsvPooled(GRAPHQL, Col))
                /\ result.rest_stats = describe(CsvPooled(REST, Col))
                /\ result.keys \subseteq ResultKeys(result.cls, result.op)
    /\ result.op = BY_TYPE =>
          \A i \in 1..Len(result.by_type) :
             LET e == result.by_type[i]
             IN  /\ RowsOfType(e.query_type) # <<>>
                 /\ e.graphql_time_mean = TypeMean(e.query_type, GRAPHQL, "response_time_ms")
                 /\ e.rest_time_mean = TypeMean(e.query_type, REST, "response_time_ms")
                 /\ e.graphql_size_mean = TypeMean(e.query_type, GRAPHQL, "response_size_bytes")
                 /\ e.rest_size_mean = TypeMean(e.query_type, REST, "response_size_bytes")

C4_Witness ==
    /\ Returned /\ N > 1
    /\ \E i \in 1..Len(csv) :
          /\ ~csv[i].success
          /\ \E j \in 1..N : KeyOf(trace.results[j]) = RowKey(csv[i])

(***************************************************************************)
(* C5: a key with successful values of both APIs gives exactly one paired  *)
(* group; its graphql_mean and rest_mean are the arithmetic means of the   *)
(* key's successful values of that API and its difference is graphql_mean  *)
(* - rest_mean.                                                            *)
(***************************************************************************)
C5_GroupMeans ==
    Ran =>
        \A k \in 1..Len(KeySeq) :
           LET g == CsvValues(KeySeq[k], GRAPHQL, Col)
               r == CsvValues(KeySeq[k], REST, Col)
               I == {i \in 1..N : KeyOf(trace.results[i]) = KeySeq[k]}
           IN  (g # <<>> /\ r # <<>>) =>
                  /\ Cardinality(I) = 1
                  /\ \A i \in I :
                        /\ trace.results[i].graphql_mean = np_mean(g)
                        /\ trace.results[i].rest_mean = np_mean(r)
                        /\ IsArithmeticMean(trace.results[i].graphql_mean, g)
                        /\ IsArithmeticMean(trace.results[i].rest_mean, r)
                        /\ trace.results[i].difference
                              = FSub(trace.results[i].graphql_mean, trace.results[i].rest_mean)

C5_Witness ==
    /\ Ran
    /\ \E i \in 1..N :
          /\ Len(CsvValues(KeyOf(trace.results[i]), GRAPHQL, Col)) = 2
          /\ ~trace.results[i].graphql_mean.nan
          /\ ~trace.results[i].difference.nan
          /\ trace.results[i].graphql_mean # CsvValues(KeyOf(trace.results[i]), GRAPHQL, Col)[1]

(***************************************************************************)
(* C6: for a sample of fewer than 3 values, the empty one included,        *)
(* test_normality returns is_normal = false and p_value = 1.0 and does not *)
(* call shapiro.                                                           *)
(***************************************************************************)
Tested == calls > 0

C6_SmallSample ==
    (Tested /\ Len(data) < 3) =>
        /\ verdict.is_normal = FALSE
        /\ verdict.p_value = POne
        /\ verdict.shapiro = <<>>

C6_Witness == Tested /\ data = <<>> /\ verdict.p_value = POne

(***************************************************************************)
(* C7: for a sample of 3 values or more, is_normal is true exactly when    *)
(* the p-value of shapiro is greater than 0.05 (not at 0.05), and when     *)
(* shapiro fails test_normality returns is_normal = false, p_value = 0.0.  *)
(***************************************************************************)
C7_DecisionRule ==
    (Tested /\ Len(data) >= 3) =>
        /\ verdict.shapiro = <<data>>
        /\ ~lib.graphql.raises =>
              /\ verdict.p_value = lib.graphql.p
              /\ verdict.is_normal <=> PGreater(lib.graphql.p, Alpha)
              /\ lib.graphql.p = Alpha => ~verdict.is_normal
        /\ lib.graphql.raises =>
              /\ verdict.is_normal = FALSE
              /\ verdict.p_value = PZero

C7_Witness ==
    /\ Tested /\ Len(data) >= 3
    /\ ~lib.graphql.raises /\ lib.graphql.p = Alpha
    /\ ~verdict.is_normal

(***************************************************************************)
(* C8: when the Wilcoxon test is run on pairs whose differences are all    *)
(* zero, the analysis returns a result with p_value = 1.0.                 *)
(***************************************************************************)
C8_DegenerateWilcoxon ==
    (Ran /\ trace.test = Wilcoxon /\ \A i \in 1..Len(trace.x) : trace.x[i] = trace.y[i]) =>
        /\ result.status = "returned"
        /\ result.p_value = POne

(***************************************************************************)
(* C9: when the paired differences of a returned analysis are all equal,   *)
(* cohens_d is 0.                                                          *)
(***************************************************************************)
C9_ZeroSpread ==
    (Returned /\ N > 1 /\ ~HasNaN(PairedDifferences) /\ AllEqual(PairedDifferences)) =>
        result.cohens_d = Zero

(***************************************************************************)
(* C10: when a test is run and the standard deviation of the differences   *)
(* is not zero, cohens_d is the mean of the differences divided by their   *)
(* population standard deviation, every difference being graphql_mean -    *)
(* rest_mean of one paired group, and cohens_d has the sign of             *)
(* mean_difference.                                                        *)
(***************************************************************************)
C10_EffectSize ==
    (Returned /\ N > 1 /\ FGreater(np_std(PairedDifferences), Zero)) =>
        /\ \A i \in 1..N :
              trace.results[i].difference
                 = FSub(trace.results[i].graphql_mean, trace.results[i].rest_mean)
        /\ result.cohens_d = FDiv(np_mean(PairedDifferences), np_std(PairedDifferences))
        /\ result.mean_difference = np_mean(PairedDifferences)
        /\ Sign(result.cohens_d.m) = Sign(result.mean_difference.m)

C10_Witness ==
    /\ Returned /\ N > 1
    /\ FGreater(np_std(PairedDifferences), Zero)
    /\ FLess(result.cohens_d, Zero)
    /\ ~AllEqual(PairedDifferences)

(***************************************************************************)
(* C11: when a test was run (n > 1) the conclusion is the GraphQL verdict  *)
(* when p_value < 0.05 and the mean difference is negative, the REST       *)
(* verdict when p_value < 0.05 and the mean difference is not negative     *)
(* (zero included), and 'no significant difference' when p_value is not    *)
(* below 0.05 (0.05 included).                                             *)
(***************************************************************************)
MeanDifference == np_mean(PairedDifferences)

C11_Conclusion ==
    (Returned /\ N > 1) =>
        /\ (PLess(result.p_value, Alpha) /\ FLess(MeanDifference, Zero))
              => result.conclusion = GraphQLBetter(result.op)
        /\ (PLess(result.p_value, Alpha) /\ ~FLess(MeanDifference, Zero))
              => result.conclusion = RESTBetter(result.op)
        /\ ~PLess(result.p_value, Alpha) => result.conclusion = NoDifference
        /\ result.p_value = Alpha => result.conclusion = NoDifference
        /\ result.conclusion
              \in {GraphQLBetter(result.op), RESTBetter(result.op), NoDifference}

C11_Witness ==
    /\ Returned /\ N > 1
    /\ PLess(result.p_value, Alpha)
    /\ MeanDifference = Zero
    /\ result.conclusion = RESTBetter(result.op)

(***************************************************************************)
(* The correlation study: calculate_correlations on a dataframe and a list *)
(* of outcome metrics, then the table and the main finding of the mapping. *)
(***************************************************************************)
InitStudy ==
    /\ csv = <<>>
    /\ df = <<>>
    /\ loaded = FALSE
    /\ calls = 0
    /\ result = NoResult
    /\ trace = NoTrace
    /\ lib = NoAnswers
    /\ data = <<>>
    /\ verdict = NoVerdict
    /\ valid_data \in Frames
    /\ quality_metrics \in QualityLists
    /\ correlations = NotComputed
    /\ scipy_calls = <<>>
    /\ table = NotComputed
    /\ finding = NotComputed
    /\ ReportIdle
    /\ OthersIdle
    /\ previous = NoResult

analysisVars == <<csv, df, loaded, calls, result, trace, lib, data, verdict>>

CalculateCorrelations ==
    /\ ~correlations.computed
    /\ \E out \in calculate_correlations(valid_data, quality_metrics, Len(quality_metrics)) :
          /\ correlations' = Computed(out.correlations)
          /\ scipy_calls' = out.calls
    /\ UNCHANGED <<analysisVars, reportVars, previous, valid_data, quality_metrics, table, finding, otherVars>>

FormatCorrelationTable ==
    /\ correlations.computed
    /\ ~table.computed
    /\ table' = Computed(format_correlation_table(correlations.value))
    /\ UNCHANGED <<analysisVars, reportVars, previous, valid_data, quality_metrics, correlations, scipy_calls, finding, otherVars>>

GetMainFinding ==
    /\ correlations.computed
    /\ ~finding.computed
    /\ finding' = Computed(get_main_finding(correlations.value))
    /\ UNCHANGED <<analysisVars, reportVars, previous, valid_data, quality_metrics, correlations, scipy_calls, table, otherVars>>

\* generate_markdown_report asks for the hypothesis of a research question.
AnalyzeHypothesis ==
    /\ correlations.computed
    /\ hypothesis_type = ""
    /\ \E h \in HypothesisTypes :
          /\ hypothesis_type' = h
          /\ hypothesis' = analyze_hypothesis(correlations.value, h)
    /\ UNCHANGED <<analysisVars, studyVars, reportVars, previous, generatorVars, laterVars>>

NextStudy ==
    CalculateCorrelations \/ FormatCorrelationTable \/ GetMainFinding \/ AnalyzeHypothesis

SpecStudy == InitStudy /\ [][NextStudy]_vars

(***************************************************************************)
(* C12: with at most 10 valid pairs calculate_correlations returns         *)
(* correlation 0 and p_value 1 for Pearson and for Spearman and calls      *)
(* neither routine; with more than 10 it calls both routines for every     *)
(* metric and the entries are what they answered.                          *)
(***************************************************************************)
Entries == correlations.value

C12_FewPairs ==
    correlations.computed =>
        /\ Len(Entries) = Len(quality_metrics)
        /\ \A i \in 1..Len(Entries) : Entries[i].metric = quality_metrics[i]
        /\ valid_data.rows <= 10 =>
              /\ scipy_calls = <<>>
              /\ \A i \in 1..Len(Entries) :
                    /\ Entries[i].pearson = Coefficient(RVal(0), PVal(100))
                    /\ Entries[i].spearman = Coefficient(RVal(0), PVal(100))
        /\ valid_data.rows > 10 =>
              \A i \in 1..Len(Entries) :
                 Entries[i].metric \in valid_data.columns =>
                    /\ Entries[i].pearson \in PearsonAnswers
                    /\ Entries[i].spearman \in SpearmanAnswers
                    /\ \E c \in 1..Len(scipy_calls) : scipy_calls[c] = "pearsonr"
                    /\ \E c \in 1..Len(scipy_calls) : scipy_calls[c] = "spearmanr"

C12_Witness ==
    /\ correlations.computed
    /\ valid_data.rows = 10
    /\ Len(Entries) = 2
    /\ scipy_calls = <<>>

(***************************************************************************)
(* C13: the label of a table row is given by the band of |pearson r|,      *)
(* [0, 0.1), [0.1, 0.3), [0.3, 0.5), [0.5, 0.7), [0.7, inf), and by        *)
(* pearson p < 0.05: detectable or inexistent, weak, moderate, strong,     *)
(* very strong, the non-significant ones other than 'inexistent' marked    *)
(* unreliable; no row with p >= 0.05 has a label of the bands from 0.1     *)
(* upward without the mark.                                                *)
(***************************************************************************)
Rows == table.value

BandText(m, significant) ==
    IF m < 10 THEN (IF significant THEN "Correlacao detectavel" ELSE "Correlacao inexistente")
    ELSE IF m < 30 THEN "Correlacao fraca"
    ELSE IF m < 50 THEN "Correlacao moderada"
    ELSE IF m < 70 THEN "Correlacao forte"
    ELSE "Correlacao muito forte"

C13_Labels ==
    table.computed =>
        /\ Len(Rows) = Len(Entries)
        /\ \A i \in 1..Len(Rows) :
              LET r == Rows[i].pearson.correlation
                  significant == ~Rows[i].pearson.p_value.nan
                                    /\ Rows[i].pearson.p_value.pct < 5
                  label == Rows[i].interpretation
              IN  /\ Rows[i].pearson = Entries[i].pearson
                  /\ ~r.nan =>
                        /\ label.text = BandText(Abs(r.pct), significant)
                        /\ label.reliable <=> (significant \/ Abs(r.pct) < 10)
                  /\ (~significant /\ label.text # "Correlacao inexistente")
                        => ~label.reliable

C13_Witness ==
    /\ table.computed
    /\ \E i \in 1..Len(Rows) :
          /\ Rows[i].pearson = Coefficient(RVal(10), PVal(5))
          /\ Rows[i].interpretation = Unreliable("Correlacao fraca")
    /\ \E i \in 1..Len(Rows) :
          /\ Rows[i].pearson = Coefficient(RVal(-70), PVal(1))
          /\ Rows[i].interpretation = Reliable("Correlacao muito forte")

(***************************************************************************)
(* C14: two rows that agree on pearson r and pearson p have the same       *)
(* label, whatever their Spearman coefficient and p-value.                 *)
(***************************************************************************)
C14_PearsonOnly ==
    table.computed =>
        \A i, j \in 1..Len(Rows) :
           Rows[i].pearson = Rows[j].pearson
              => Rows[i].interpretation = Rows[j].interpretation

C14_Witness ==
    /\ table.computed
    /\ \E i, j \in 1..Len(Rows) :
          /\ Rows[i].pearson = Rows[j].pearson
          /\ ~Rows[i].pearson.correlation.nan
          /\ PLess(Rows[i].spearman.p_value, Alpha)
          /\ ~PLess(Rows[j].spearman.p_value, Alpha)
          /\ ~PLess(Rows[i].pearson.p_value, Alpha)

(***************************************************************************)
(* C15: get_main_finding reports a metric of the largest |pearson r| among *)
(* the entries with pearson p < 0.05, and reports that no significant      *)
(* correlation was identified exactly when no entry has p < 0.05.          *)
(***************************************************************************)
Significant == {i \in 1..Len(Entries) : PLess(Entries[i].pearson.p_value, PVal(5))}

Magnitude(i) == Abs(Entries[i].pearson.correlation.pct)

Strongests == {i \in Significant : \A j \in Significant : Magnitude(j) <= Magnitude(i)}

C15_MainFinding ==
    finding.computed =>
        /\ finding.value = NoneSignificant <=> Significant = {}
        /\ Significant # {} =>
              \E i \in Strongests :
                 /\ finding.value.metric = Entries[i].metric
                 /\ finding.value.r = Entries[i].pearson.correlation

C15_Witness ==
    /\ finding.computed
    /\ \E i \in Significant, j \in 1..Len(Entries) \ Significant :
          /\ Magnitude(j) > Magnitude(i)
          /\ finding.value.metric = Entries[i].metric

(***************************************************************************)
(* C16: when several significant entries have the largest |r|, the one     *)
(* that comes first in the mapping is reported.                            *)
(***************************************************************************)
FirstOf(S) == CHOOSE i \in S : \A j \in S : i <= j

C16_FirstOfTies ==
    (finding.computed /\ Strongests # {}) =>
        /\ finding.value.metric = Entries[FirstOf(Strongests)].metric
        /\ finding.value.r = Entries[FirstOf(Strongests)].pearson.correlation

C16_Witness ==
    /\ finding.computed
    /\ Cardinality(Strongests) = 2
    /\ finding.value.metric = Entries[1].metric
    /\ Entries[1].metric = PR_REVIEWS
    /\ Entries[1].pearson.correlation # Entries[2].pearson.correlation

(***************************************************************************)
(* C18: on every loaded dataset, the empty one and one without successful  *)
(* rows of one API included, analyze_rq1 and analyze_rq2 return a result,  *)
(* the neutral one when there are fewer than 2 paired groups.              *)
(***************************************************************************)
C18_NeverRaises ==
    (Ran /\ (trace.all_graphql = <<>> \/ trace.all_rest = <<>>)) =>
        /\ result.status = "returned"
        /\ result.keys = ResultKeys(result.cls, result.op)
        /\ result.p_value = POne
        /\ result.cohens_d = Zero
        /\ result.conclusion = Insufficient(result.cls)

(***************************************************************************)
(* C19: a successful row whose value is no number is left out of the       *)
(* analysis: the paired group means, the paired differences, the pooled    *)
(* samples and the samples tested for normality are those of the rows of   *)
(* the file that have a number.                                            *)
(***************************************************************************)
NumericRows(rows, col) == SelectSeq(rows, LAMBDA row : row.success /\ row[col].numeric)

NumericValues(rows, col) == CsvValuesOf(NumericRows(rows, col), col)

NumericPooled(api) ==
    NumericValues(SelectSeq(csv, LAMBDA row : row.api_type = api), Col)

NumericOf(key, api) ==
    NumericValues(SelectSeq(csv, LAMBDA row : row.api_type = api /\ RowKey(row) = key), Col)

C19_MalformedExcluded ==
    Returned =>
        /\ trace.all_graphql = NumericPooled(GRAPHQL)
        /\ trace.all_rest = NumericPooled(REST)
        /\ \A i \in 1..N :
              /\ trace.results[i].graphql_mean = np_mean(NumericOf(KeyOf(trace.results[i]), GRAPHQL))
              /\ trace.results[i].rest_mean = np_mean(NumericOf(KeyOf(trace.results[i]), REST))
              /\ ~trace.results[i].difference.nan
        /\ \A v \in {trace.graphql_verdict, trace.rest_verdict} :
              \A j \in 1..Len(v.shapiro) : ~HasNaN(v.shapiro[j])

(***************************************************************************)
(* The interpretation paragraphs of the experiment report, rendered for    *)
(* the cohens_d of the RQ1 and of the RQ2 result.                          *)
(***************************************************************************)
InitReport ==
    /\ csv = <<>>
    /\ df = <<>>
    /\ loaded = FALSE
    /\ calls = 0
    /\ result = NoResult
    /\ trace = NoTrace
    /\ lib = NoAnswers
    /\ data = <<>>
    /\ verdict = NoVerdict
    /\ StudyIdle
    /\ cohens_ds \in EffectValues \X EffectValues
    /\ bands = <<>>
    /\ OthersIdle
    /\ previous = NoResult

RenderInterpretation ==
    /\ bands = <<>>
    /\ bands' = <<effect_band(cohens_ds[1]), effect_band(cohens_ds[2])>>
    /\ UNCHANGED <<analysisVars, studyVars, cohens_ds, previous, otherVars>>

NextReport == RenderInterpretation

SpecReport == InitReport /\ [][NextReport]_vars

(***************************************************************************)
(* C20: the magnitude named for an effect is 'very small' for |d| < 0.2,   *)
(* 'small' for 0.2 <= |d| < 0.5, 'medium' for 0.5 <= |d| < 0.8 and 'large' *)
(* for |d| >= 0.8; the RQ1 and the RQ2 paragraph name the same magnitude   *)
(* for the same |d|, and so do d and -d.                                   *)
(***************************************************************************)
\* |d| < num/den, in exact arithmetic.
MagnitudeBelow(d, num, den) ==
    IF d.e >= 0 THEN Abs(d.m) * Pow2(d.e) * den < num
    ELSE Abs(d.m) * den < num * Pow2(0 - d.e)

BandOf(d) ==
    IF MagnitudeBelow(d, 1, 5) THEN "muito pequeno"
    ELSE IF MagnitudeBelow(d, 1, 2) THEN "pequeno"
    ELSE IF MagnitudeBelow(d, 4, 5) THEN "medio"
    ELSE "grande"

C20_EffectBands ==
    bands # <<>> =>
        /\ bands[1] = BandOf(cohens_ds[1])
        /\ bands[2] = BandOf(cohens_ds[2])
        /\ Abs(cohens_ds[1].m) = Abs(cohens_ds[2].m) /\ cohens_ds[1].e = cohens_ds[2].e
              => bands[1] = bands[2]

C20_Witness ==
    /\ bands = <<"pequeno", "pequeno">>
    /\ cohens_ds[1] = Literal(1, 5)
    /\ cohens_ds[2].m = 0 - cohens_ds[1].m
    /\ cohens_ds[2].e = cohens_ds[1].e

(***************************************************************************)
(* One analysis run again on the same dataframe, as main() does when it    *)
(* stores the results and generate_summary_report computes them anew.  The *)
(* scipy routines are functions: given the arguments of the run before,    *)
(* they answer what they answered then.                                    *)
(***************************************************************************)
\* Most runs of one analysis.
MaxRuns == 2

\* A file whose first key has SampleCap + 1 successful GraphQL rows.
ManyRows == [i \in 1..(SampleCap + 1) |-> IF i = 1 THEN Ok8 ELSE Ok1]

BigCsv ==
    MakeRows(KeySeq[1], GRAPHQL, ManyRows) \o MakeRows(KeySeq[1], REST, <<Ok1, Ok8>>)
    \o MakeRows(KeySeq[2], GRAPHQL, <<Ok1>>) \o MakeRows(KeySeq[2], REST, <<Ok1>>)

RerunDatasets ==
    {BigCsv} \cup
    {MakeCsv(g, r, Len(KeySeq)) :
        g \in {c \in Columns(GRAPHQL) : c[1] \in {<<Ok8>>, <<Ok1, Ok8>>} /\ c[3] = <<>>},
        r \in {c \in Columns(REST) : c[1] \in {<<Ok1>>, <<Ok1, Ok8>>} /\ c[3] = <<>>}}

InitRerun ==
    /\ csv \in RerunDatasets
    /\ df = <<>>
    /\ loaded = FALSE
    /\ calls = 0
    /\ result = NoResult
    /\ trace = NoTrace
    /\ lib = NoAnswers
    /\ data = <<>>
    /\ verdict = NoVerdict
    /\ StudyIdle
    /\ ReportIdle
    /\ OthersIdle
    /\ previous = NoResult

\* The answers a, given in a run that saw now, agree with those the
\* routines gave in the run before, and with each other, wherever the
\* arguments are the same.
SameAnswers(now, a) ==
    LET sg == now.graphql_verdict.shapiro
        sr == now.rest_verdict.shapiro
    IN  /\ (sg # <<>> /\ sg = trace.graphql_verdict.shapiro) => a[1] = lib.graphql
        /\ (sg # <<>> /\ sg = trace.rest_verdict.shapiro) => a[1] = lib.rest
        /\ (sr # <<>> /\ sr = trace.graphql_verdict.shapiro) => a[2] = lib.graphql
        /\ (sr # <<>> /\ sr = trace.rest_verdict.shapiro) => a[2] = lib.rest
        /\ (sg # <<>> /\ sg = sr) => a[1] = a[2]
        /\ (now.test # "" /\ now.test = trace.test /\ now.x = trace.x /\ now.y = trace.y)
              => a[3] = lib.test

\* main() runs an analysis of its ExperimentAnalyzer, and
\* generate_summary_report runs it again.
Rerun(op) ==
    /\ loaded
    /\ calls < MaxRuns
    /\ calls > 0 => result.op = op
    /\ calls' = calls + 1
    /\ previous' = result
    /\ \E pre \in {prepare(op, df)} :
          \E pg \in Picks(pre.all_graphql), pr \in Picks(pre.all_rest) :
             \E a \in AnswersFor(pre, pg, pr) :
                \E out \in {finish(ExperimentAnalyzer, op, pre, pg, pr, a[1], a[2], a[3])} :
                   /\ SameAnswers(out.trace, a)
                   /\ result' = out.ret
                   /\ trace' = out.trace
                   /\ lib' = [graphql |-> a[1], rest |-> a[2], test |-> a[3]]
    /\ UNCHANGED <<csv, df, loaded, data, verdict, studyVars, reportVars, otherVars>>

RerunRq1 == Rerun(RQ1)

RerunRq2 == Rerun(RQ2)

NextRerun == LoadData \/ RerunRq1 \/ RerunRq2

SpecRerun == InitRerun /\ [][NextRerun]_vars

(***************************************************************************)
(* C17: two successive runs of analyze_rq1 (or of analyze_rq2) on the same *)
(* loaded dataset return the same test_name, p_value, cohens_d and         *)
(* conclusion, a pooled sample of more than 5000 values included.          *)
(***************************************************************************)
RanTwice ==
    /\ calls >= 2
    /\ previous.status = "returned"
    /\ result.status = "returned"
    /\ previous.op = result.op

SameResults ==
    /\ result.test_name = previous.test_name
    /\ result.p_value = previous.p_value
    /\ result.cohens_d = previous.cohens_d
    /\ result.conclusion = previous.conclusion

C17_SameOnRerun == RanTwice => SameResults

\* Without a subsample the two runs agree.
RerunOfSmall ==
    (RanTwice /\ Len(trace.all_graphql) <= 5000 /\ Len(trace.all_rest) <= 5000)
        => SameResults

(***************************************************************************)
(* Analyses run one after the other on the dataframe of one                *)
(* ExperimentAnalyzer.  Next to what an analysis returns (result), previous *)
(* holds what the same analysis returns when it is the first to run on the *)
(* file as load_data read it; scipy answers both runs the same for the     *)
(* same arguments.                                                         *)
(***************************************************************************)
\* Most analyses run one after the other.
MaxOrder == 2

\* An analysis runs in one of three roles: on the analyzer, before the one
\* that is compared ("preceding"), what it returns going to its caller; as the first analysis of another analyzer
\* of the same file ("alone"), previous being what it returns and trace and
\* lib what it did and was answered; and on the analyzer the others ran on
\* ("ordered"), scipy answering the same to the same arguments.
Roles == {"preceding", "alone", "ordered"}

MayRun(role, op) ==
    /\ loaded
    /\ calls < MaxOrder
    /\ role = "preceding" => calls < MaxOrder - 1 /\ previous = NoResult
    /\ role = "alone" => calls >= 1 /\ previous = NoResult
    /\ role = "ordered" => calls >= 1 /\ previous # NoResult /\ previous.op = op

Recorded(role, ret, did, answers) ==
    /\ calls' = IF role = "alone" THEN calls ELSE calls + 1
    /\ result' = IF role = "ordered" THEN ret ELSE result
    /\ previous' = IF role = "alone" THEN ret ELSE previous
    /\ trace' = IF role = "alone" THEN did ELSE trace
    /\ lib' = IF role = "alone" THEN answers ELSE lib

OrderedRq ==
    /\ \E role \in Roles, op \in {RQ1, RQ2} :
          /\ MayRun(role, op)
          /\ \E d \in {IF role = "alone" THEN load_data(csv) ELSE df} :
                \E pre \in {prepare(op, d)} :
                   \E pg \in Picks(pre.all_graphql), pr \in Picks(pre.all_rest) :
                      \E a \in AnswersFor(pre, pg, pr) :
                         \E out \in {finish(ExperimentAnalyzer, op, pre, pg, pr,
                                            a[1], a[2], a[3])} :
                            /\ SameAnswers(out.trace, a)
                            /\ Recorded(role, out.ret, out.trace,
                                        [graphql |-> a[1], rest |-> a[2], test |-> a[3]])
    /\ UNCHANGED <<csv, df, loaded, data, verdict, studyVars, reportVars, otherVars>>

OrderedByQueryType ==
    /\ \E role \in Roles :
          /\ MayRun(role, BY_TYPE)
          /\ \E d \in {IF role = "alone" THEN load_data(csv) ELSE df} :
                Recorded(role, analyze_by_query_type(ExperimentAnalyzer, d), trace, lib)
    /\ UNCHANGED <<csv, df, loaded, data, verdict, studyVars, reportVars, otherVars>>

NextOrder == LoadData \/ OrderedRq \/ OrderedByQueryType

\* The file with a pooled sample above the limit and files of two rows a key.
OrderDatasets ==
    {BigCsv} \cup
    {MakeCsv(g, r, Len(KeySeq)) :
        g \in {c \in Columns(GRAPHQL) : c[1] = <<Ok1, Ok8>> /\ c[3] = <<>>},
        r \in {c \in Columns(REST) : c[1] = <<Ok1, Ok8>> /\ c[3] = <<>>}}

InitOrder ==
    /\ InitRerun
    /\ csv \in OrderDatasets

SpecOrder == InitOrder /\ [][NextOrder]_vars

(***************************************************************************)
(* C21: the analyses leave the dataframe of the object as load_data built  *)
(* it, and an analysis that runs after other analyses returns what it      *)
(* returns when it is the first to run.                                    *)
(***************************************************************************)
DatasetUnchanged == loaded => df = load_data(csv)

C21_OrderIndependent ==
    /\ DatasetUnchanged
    /\ calls >= 2 => result = previous

(***************************************************************************)
(* The calls of test_normality in one process.  data.sample is given no    *)
(* random_state, so it draws from numpy's process-wide generator: a draw   *)
(* is a function of the generator's state and moves it on, and             *)
(* np.random.seed(42) in ReportGenerator.load_data sets it.  The generator *)
(* starts in a state of its own choice.                                    *)
(***************************************************************************)
\* States of the generator.
RngStates == 4

\* np.random.seed(n)
Seed(n) == n % RngStates

\* The positions data.sample(SampleCap) keeps with the generator in state s:
\* consecutive states keep different positions.
DrawAt(s, sample) ==
    IF s % 2 = 0
    THEN SubSeq([i \in 1..Len(sample) |-> i], 1, SampleCap)
    ELSE SubSeq([i \in 1..Len(sample) |-> i], Len(sample) - SampleCap + 1, Len(sample))

\* test_normality(sample) with the generator in state s and shapiro
\* answering answer: the verdict, and the state the generator is left in.
test_normality_at(s, sample, answer) ==
    IF Len(sample) > SampleCap
    THEN [verdict |-> test_normality(sample, DrawAt(s, sample), answer),
          rng |-> (s + 1) % RngStates]
    ELSE [verdict |-> test_normality(sample, <<>>, answer), rng |-> s]

\* A pooled sample of SampleCap + 1 values.
ManyValues == SubSeq([i \in 1..(SampleCap + 1) |-> IF i = 1 THEN FromInt(8) ELSE FromInt(1)],
                     1, SampleCap + 1)

\* What shapiro can answer to the sample test_normality hands it.
AnswersTo(sample, s) ==
    IF Len(sample) < 3 THEN {NotCalled}
    ELSE ShapiroAnswers(IF Len(sample) > SampleCap
                        THEN Subsample(sample, DrawAt(s, sample)) ELSE sample)

InitShared ==
    /\ csv = <<>>
    /\ df = <<>>
    /\ loaded = FALSE
    /\ calls = 0
    /\ result = NoResult
    /\ trace = NoTrace
    /\ lib = NoAnswers
    /\ data \in SamplesOf(MaxSample) \cup {ManyValues}
    /\ verdict = NoVerdict
    /\ StudyIdle
    /\ ReportIdle
    /\ previous = NoResult
    /\ rng \in 0..(RngStates - 1)
    /\ alone = [start |-> rng, verdict |-> NoVerdict]
    /\ HypothesisIdle
    /\ LaterIdle

\* An analysis calls test_normality on the pooled sample.
TestNormalityShared ==
    /\ calls < MaxOrder
    /\ calls' = calls + 1
    /\ \E answer \in AnswersTo(data, rng), answer0 \in AnswersTo(data, alone.start) :
          \E call \in {test_normality_at(rng, data, answer)},
             call0 \in {test_normality_at(alone.start, data, answer0)} :
             /\ call.verdict.shapiro = call0.verdict.shapiro => answer = answer0
             /\ verdict' = call.verdict
             /\ rng' = call.rng
             /\ lib' = [NoAnswers EXCEPT !.graphql = answer]
             /\ alone' = [alone EXCEPT !.verdict = call0.verdict]
    /\ UNCHANGED <<csv, df, loaded, result, trace, data, studyVars, reportVars, previous,
                   hypothesisVars, laterVars>>

\* ReportGenerator.load_data runs in the process.
Reseed ==
    /\ rng' = Seed(42)
    /\ UNCHANGED <<csv, df, loaded, calls, result, trace, lib, data, verdict, studyVars,
                   reportVars, previous, alone, hypothesisVars, laterVars>>

NextShared == TestNormalityShared \/ Reseed

SpecShared == InitShared /\ [][NextShared]_vars

(***************************************************************************)
(* C22: a call of test_normality gets the verdict it gets when it is the   *)
(* only call in the process, whatever calls and reseedings came before it. *)
(***************************************************************************)
C22_IsolatedDraws ==
    calls >= 1 =>
        /\ verdict.is_normal = alone.verdict.is_normal
        /\ verdict.p_value = alone.verdict.p_value

(***************************************************************************)
(* C23: on the same dataframe and with the same answers of scipy, the      *)
(* analysis of the other class returns the same test_name, p_value,        *)
(* cohens_d and conclusion, with more than one pair and with fewer alike.  *)
(***************************************************************************)
OtherClass(cls) == CHOOSE c \in Classes : c # cls

\* What the same analysis of the other class returns.
Twin ==
    finish(OtherClass(result.cls), result.op, prepare(result.op, df), <<>>, <<>>,
           lib.graphql, lib.rest, lib.test).ret

C23_ClassesAgree ==
    Returned =>
        /\ Twin.status = "returned"
        /\ Twin.test_name = result.test_name
        /\ Twin.p_value = result.p_value
        /\ Twin.cohens_d = result.cohens_d
        /\ Twin.conclusion = result.conclusion

\* The classes agree on everything but the conclusion of the
\* insufficient-data case.
AgreeButInsufficient ==
    Returned =>
        /\ Twin.status = "returned"
        /\ Twin.test_name = result.test_name
        /\ Twin.p_value = result.p_value
        /\ Twin.cohens_d = result.cohens_d
        /\ N > 1 => Twin.conclusion = result.conclusion

(***************************************************************************)
(* C24: the samples tested for normality and the descriptive statistics of *)
(* an API are those of the pooled successful measurements of that API in   *)
(* the file, the measurements of keys without a pair included; the         *)
(* per-group means are handed to the statistical test only.                *)
(***************************************************************************)
\* The sample test_normality hands to shapiro when it is given all.
Handed(all) == IF Len(all) >= 3 THEN <<all>> ELSE <<>>

interpretation_test(graphql_normal, rest_normal) ==
    IF graphql_normal /\ rest_normal THEN TTest ELSE Wilcoxon

\* The test named in the paragraph written from the last result.
NamedTest ==
    interpretation_test(trace.graphql_verdict.is_normal, trace.rest_verdict.is_normal)

C25_NamedTest ==
    (Returned /\ result.cls = ReportGenerator) => NamedTest = result.test_name

\* The paragraph names the test that was run whenever one was run.
NamedWhenRun ==
    (Returned /\ result.cls = ReportGenerator /\ N > 1) => NamedTest = result.test_name

(***************************************************************************)
(* C26: in a result of ExperimentAnalyzer the direction flag is true when  *)
(* the conclusion says GraphQL is significantly better and false when it   *)
(* says REST is; with the insufficient-data conclusion the flag is false   *)
(* and mean_difference is 0.                                               *)
(***************************************************************************)
FlagFollowsConclusion ==
    (Returned /\ result.cls = ExperimentAnalyzer) =>
        /\ result.conclusion = GraphQLBetter(result.op) => result.graphql_better
        /\ result.conclusion = RESTBetter(result.op) => ~result.graphql_better

\* Every measurement the analysis read is a number.
AllNumbers == ~HasNaN(trace.all_graphql) /\ ~HasNaN(trace.all_rest)

C26_DirectionFlag ==
    /\ FlagFollowsConclusion
    /\ (Returned /\ result.cls = ExperimentAnalyzer /\ AllNumbers
          /\ result.conclusion = Insufficient(ExperimentAnalyzer)) =>
             /\ ~result.graphql_better
             /\ result.mean_difference = Zero

(***************************************************************************)
(* C27: analyze_hypothesis reports the hypothesis as partially supported   *)
(* only if a significant correlation (pearson p < 0.05) has the sign the   *)
(* research question expects (negative for RQ02, positive for the others), *)
(* and as not supported otherwise.                                         *)
(***************************************************************************)
HypothesisAnalyzed == hypothesis_type # ""

\* Entry i has the sign the research question expects.
ExpectedSign(i) ==
    IF hypothesis_type = "RQ02"
    THEN RBelow(Entries[i].pearson.correlation, 0)
    ELSE RAbove(Entries[i].pearson.correlation, 0)

C27_SupportedHypothesis ==
    HypothesisAnalyzed =>
        (hypothesis.text = "Parcialmente suportada"
            <=> \E i \in Significant : ExpectedSign(i))

\* The hypothesis is reported as supported exactly when a correlation is
\* significant, whatever its sign.
SupportedWhenSignificant ==
    HypothesisAnalyzed =>
        (hypothesis.text = "Parcialmente suportada" <=> Significant # {})

(***************************************************************************)
(* The collector of experiment_collector.py.  A request either raises      *)
(* inside requests (timeout, refused connection) or is answered with a     *)
(* status and a body that parses as JSON or does not; the clock and the    *)
(* timestamp of a measurement are left out.                                *)
(***************************************************************************)
MaxRepos == 2

MaxReplicas == 2

MaxFailures == 1

\* Python's None and a value that is not None.
None == <<>>

Some(v) == <<v>>

Repositories == {<<"facebook", "react">>, <<"microsoft", "vscode">>}

RepoLists ==
    {l \in UNION {[1..n -> Repositories] : n \in 0..MaxRepos} :
        \A i, j \in DOMAIN l : l[i] = l[j] => i = j}

NetworkResponses ==
    {[kind |-> "raised"]}
    \cup {[kind |-> "answered", status |-> st, json |-> j, elapsed_ms |-> 3, size |-> 8] :
             st \in {200, 404}, j \in BOOLEAN}

measure_graphql_query(response) ==
    IF response.kind = "raised" THEN [time |-> None, size |-> None]
    ELSE IF response.status = 200 /\ ~response.json THEN [time |-> None, size |-> None]
    ELSE [time |-> Some(response.elapsed_ms), size |-> Some(response.size)]

measure_rest_request(response) ==
    IF response.kind = "raised" THEN [time |-> None, size |-> None]
    ELSE IF response.status = 200 /\ ~response.json THEN [time |-> None, size |-> None]
    ELSE [time |-> Some(response.elapsed_ms), size |-> Some(response.size)]

query_types == <<"simple", "complex", "multiple">>

api_types == <<"graphql", "rest">>

KnownQueries == {query_types[i] : i \in DOMAIN query_types}

\* additional_params.get('repos', [(owner, name)]) if additional_params else ...
repos_of(additional_params, owner, name) ==
    IF "repos" \in DOMAIN additional_params THEN additional_params.repos
    ELSE <<<<owner, name>>>>

\* The requests one call of collect_measurement sends.
requests_of(query_type, api_type, owner, name, additional_params) ==
    IF api_type \notin {"graphql", "rest"} \/ query_type \notin KnownQueries THEN 0
    ELSE IF api_type = "rest" /\ query_type = "multiple"
         THEN Len(repos_of(additional_params, owner, name))
    ELSE 1

\* The loop over the endpoints of the REST 'multiple' query.
RECURSIVE rest_totals(_, _)
rest_totals(got, k) ==
    IF k = 0 THEN [total_time |-> 0, total_size |-> 0]
    ELSE LET before == rest_totals(got, k - 1)
             m == measure_rest_request(got[k])
         IN IF m.time # None
            THEN [total_time |-> before.total_time + m.time[1],
                  total_size |-> before.total_size + m.size[1]]
            ELSE before

\* got are the responses to the requests of the call, in the order sent.
collect_measurement(query_type, api_type, owner, name, additional_params, got) ==
    LET blank == [query_type |-> query_type, api_type |-> api_type,
                  repository_owner |-> owner, repository_name |-> name,
                  response_time_ms |-> None, response_size_bytes |-> None,
                  success |-> FALSE, error |-> None]
        totals == rest_totals(got, Len(got))
        measured == IF api_type = "graphql" THEN measure_graphql_query(got[1])
                    ELSE IF query_type = "multiple"
                         THEN [time |-> Some(totals.total_time),
                               size |-> Some(totals.total_size)]
                    ELSE measure_rest_request(got[1])
    IN IF api_type \notin {"graphql", "rest"}
       THEN [blank EXCEPT !.error = Some("Tipo de API desconhecido")]
       ELSE IF query_type \notin KnownQueries
       THEN [blank EXCEPT !.error = Some("Tipo de consulta desconhecido")]
       ELSE IF measured.time # None /\ measured.size # None
       THEN [blank EXCEPT !.response_time_ms = measured.time,
                          !.response_size_bytes = measured.size,
                          !.success = TRUE]
       ELSE [blank EXCEPT !.error = Some("Falha na requisicao")]

\* The requests of got that gave neither a time nor a size.
Failed(got) == {k \in DOMAIN got : measure_rest_request(got[k]).time = None}

InitMeasurement ==
    /\ csv = <<>>
    /\ df = <<>>
    /\ loaded = FALSE
    /\ calls = 0
    /\ result = NoResult
    /\ trace = NoTrace
    /\ lib = NoAnswers
    /\ data = <<>>
    /\ verdict = NoVerdict
    /\ StudyIdle
    /\ ReportIdle
    /\ previous = NoResult
    /\ OthersIdle

\* A caller asks for one measurement.
CollectMeasurement ==
    /\ \E query_type \in KnownQueries \cup {"batch"}, api_type \in {"graphql", "rest", "soap"},
          repo \in Repositories,
          additional_params \in {None, [limit |-> 10]} \cup {[repos |-> l] : l \in RepoLists} :
          \E got \in [1..requests_of(query_type, api_type, repo[1], repo[2], additional_params)
                        -> NetworkResponses] :
             /\ measurement' = collect_measurement(query_type, api_type, repo[1], repo[2],
                                                   additional_params, got)
             /\ responses' = got
    /\ UNCHANGED <<csv, df, loaded, calls, result, trace, lib, data, verdict, studyVars,
                   reportVars, previous, generatorVars, hypothesisVars, pullVars,
                   repositories, num_replicas, trial, api_order, all_measurements, failures>>

NextMeasurement == CollectMeasurement

SpecMeasurement == InitMeasurement /\ [][NextMeasurement]_vars

Measured == DOMAIN measurement # {}

SingleRequest == ~(measurement.api_type = "rest" /\ measurement.query_type = "multiple")

UnknownType ==
    \/ measurement.api_type \notin {"graphql", "rest"}
    \/ measurement.query_type \notin KnownQueries

\* C29: collect_measurement flags a measurement successful only if a request
\* behind it completed and gave a time and a size; an unknown query or API
\* type and a failed request give success = false, an error text and no
\* time or size; a REST 'multiple' measurement whose requests all failed is
\* not flagged successful.
C29_SuccessFlag ==
    Measured =>
       /\ measurement.success =>
             /\ Failed(responses) # DOMAIN responses
             /\ measurement.response_time_ms # None
             /\ measurement.response_size_bytes # None
       /\ UnknownType \/ (SingleRequest /\ Failed(responses) # {}) =>
             /\ ~measurement.success
             /\ measurement.error # None
             /\ measurement.response_time_ms = None
             /\ measurement.response_size_bytes = None
       /\ ~UnknownType /\ ~SingleRequest /\ Failed(responses) = DOMAIN responses =>
             ~measurement.success

\* The same for the calls that send one request.
FlagOfSingleRequest == Measured /\ (UnknownType \/ SingleRequest) => C29_SuccessFlag

(***************************************************************************)
(* run_experiment_trial, one measurement a step.                           *)
(***************************************************************************)
Shuffles(order) == {order, <<order[2], order[1]>>}

appended_successful(measurements, m) ==
    IF m.success THEN Append(measurements, m) ELSE measurements

appended(measurements, m) == Append(measurements, m)

\* additional_params of the current query type.
params_of(query_type) ==
    IF query_type = "complex" THEN [limit |-> 10]
    ELSE IF query_type = "multiple"
         THEN [repos |-> SubSeq(repositories, 1, Min2(3, Len(repositories)))]
    ELSE None

InitTrial ==
    /\ csv = <<>>
    /\ df = <<>>
    /\ loaded = FALSE
    /\ calls = 0
    /\ result = NoResult
    /\ trace = NoTrace
    /\ lib = NoAnswers
    /\ data = <<>>
    /\ verdict = NoVerdict
    /\ StudyIdle
    /\ ReportIdle
    /\ previous = NoResult
    /\ GeneratorIdle
    /\ HypothesisIdle
    /\ PullIdle
    /\ repositories \in RepoLists
    /\ num_replicas \in 0..MaxReplicas
    /\ trial = [phase |-> "called", repo |-> 0, query |-> 0, api |-> 0, replica |-> 0]
    /\ api_order = <<>>
    /\ all_measurements = <<>>
    /\ failures = 0
    /\ measurement = <<>>
    /\ responses = <<>>

\* The function starts: it returns at once when no loop body runs.
StartTrial ==
    /\ trial.phase = "called"
    /\ all_measurements' = <<>>
    /\ \E order \in Shuffles(api_types) :
          /\ api_order' = IF Len(repositories) = 0 THEN <<>> ELSE order
          /\ trial' = IF Len(repositories) = 0 \/ num_replicas <= 0
                      THEN [trial EXCEPT !.phase = "returned"]
                      ELSE [phase |-> "running", repo |-> 1, query |-> 1, api |-> 1,
                            replica |-> 0]
    /\ UNCHANGED <<csv, df, loaded, calls, result, trace, lib, data, verdict, studyVars,
                   reportVars, previous, generatorVars, hypothesisVars, pullVars,
                   repositories, num_replicas, failures, measurement, responses>>

\* The responses drawn for the requests of a trial: a request that raised
\* and one answered with status 200 and a JSON body.
TrialResponses ==
    {r \in NetworkResponses : r.kind = "answered" => r.status = 200 /\ r.json}

\* The innermost loop ends with this pass, and so does the loop over the
\* API types: the next pass, if there is one, follows a shuffle.
BlockEnds == trial.replica + 1 >= num_replicas /\ trial.api >= Len(api_order)

\* One pass of the innermost loop and the loop headers that follow it.
TrialStep ==
    /\ trial.phase = "running"
    /\ \E order \in IF BlockEnds THEN Shuffles(api_types) ELSE {api_order} :
          LET owner == repositories[trial.repo][1]
              name == repositories[trial.repo][2]
              query_type == query_types[trial.query]
              api_type == api_order[trial.api]
              additional_params == params_of(query_type)
          IN \E got \in [1..requests_of(query_type, api_type, owner, name, additional_params)
                           -> TrialResponses] :
                /\ failures + Cardinality(Failed(got)) <= MaxFailures
                /\ failures' = failures + Cardinality(Failed(got))
                /\ measurement' = collect_measurement(query_type, api_type, owner, name,
                                                      additional_params, got)
                /\ responses' = got
                /\ all_measurements' = appended(all_measurements, measurement')
                /\ IF trial.replica + 1 < num_replicas
                   THEN /\ trial' = [trial EXCEPT !.replica = trial.replica + 1]
                        /\ api_order' = api_order
                   ELSE IF trial.api < Len(api_order)
                   THEN /\ trial' = [trial EXCEPT !.api = trial.api + 1, !.replica = 0]
                        /\ api_order' = api_order
                   ELSE IF trial.query < Len(query_types)
                   THEN /\ trial' = [trial EXCEPT !.query = trial.query + 1, !.api = 1,
                                                  !.replica = 0]
                        /\ api_order' = order
                   ELSE IF trial.repo < Len(repositories)
                   THEN /\ trial' = [trial EXCEPT !.repo = trial.repo + 1, !.query = 1,
                                                  !.api = 1, !.replica = 0]
                        /\ api_order' = order
                   ELSE /\ trial' = [trial EXCEPT !.phase = "returned"]
                        /\ api_order' = api_order
    /\ UNCHANGED <<csv, df, loaded, calls, result, trace, lib, data, verdict, studyVars,
                   reportVars, previous, generatorVars, hypothesisVars, pullVars,
                   repositories, num_replicas>>

NextTrial == StartTrial \/ TrialStep

SpecTrial == InitTrial /\ [][NextTrial]_vars

\* The measurements taken of a combination.
TakenOf(repo, query_type, api_type) ==
    {k \in DOMAIN all_measurements :
        /\ all_measurements[k].repository_owner = repo[1]
        /\ all_measurements[k].repository_name = repo[2]
        /\ all_measurements[k].query_type = query_type
        /\ all_measurements[k].api_type = api_type}

\* The block of a (repository, query type) pair the k-th measurement is in,
\* counted from 0, and the half of the block.
BlockOf(k) == (k - 1) \div (2 * num_replicas)

HalfOf(k) == ((k - 1) % (2 * num_replicas)) \div num_replicas

\* The first measurement of the block the k-th measurement is in.
FirstOfBlock(k) == BlockOf(k) * 2 * num_replicas + 1

\* C28: run_experiment_trial returns len(repositories) x 3 x 2 x
\* num_replicas measurements, num_replicas of every combination whether or
\* not requests fail; repositories and query types come in the given order
\* and within a (repository, query type) pair all replicas of one API type
\* come before any of the other.
C28_TrialMeasurements ==
    /\ trial.phase = "returned" =>
          /\ Len(all_measurements) = Len(repositories) * 3 * 2 * num_replicas
          /\ \A r \in DOMAIN repositories, q \in KnownQueries, a \in {"graphql", "rest"} :
                Cardinality(TakenOf(repositories[r], q, a)) = num_replicas
    /\ \A k \in DOMAIN all_measurements :
          /\ all_measurements[k].repository_owner = repositories[(BlockOf(k) \div 3) + 1][1]
          /\ all_measurements[k].repository_name = repositories[(BlockOf(k) \div 3) + 1][2]
          /\ all_measurements[k].query_type = query_types[(BlockOf(k) % 3) + 1]
          /\ all_measurements[k].api_type \in {"graphql", "rest"}
          /\ all_measurements[k].api_type = all_measurements[FirstOfBlock(k)].api_type
                <=> HalfOf(k) = 0

\* A trial of two repositories returned with a failed measurement in it, one
\* pair having started with REST and another with GraphQL.
C28_Witness ==
    /\ trial.phase = "returned"
    /\ Len(repositories) = 2
    /\ num_replicas = 2
    /\ \E k \in DOMAIN all_measurements : ~all_measurements[k].success
    /\ all_measurements[1].api_type = "rest"
    /\ all_measurements[2 * num_replicas + 1].api_type = "graphql"

(***************************************************************************)
(* collect_pull_requests_data of main.py, one request of a page a step.    *)
(* Times are counted in minutes, so that an hour is 60 of them.            *)
(***************************************************************************)
MaxLimit == 2

MaxPages == 2

MaxNodes == 2

MaxReviews == 2

OneHour == 60

SelectedLists ==
    {[i \in DOMAIN l |-> [owner |-> l[i][1], name |-> l[i][2]]] : l \in RepoLists}

\* The nodes of a page: closed after 59 minutes, merged after an hour, still
\* open, and one that lacks a field process_pull_request_data reads.
PullRequestNodes ==
    {[reviews |-> r, createdAt |-> 0, closedAt |-> t[1], mergedAt |-> t[2], whole |-> TRUE] :
        r \in 0..MaxReviews, t \in {<<Some(59), None>>, <<Some(60), Some(60)>>}}
    \cup {[reviews |-> 1, createdAt |-> 0, closedAt |-> None, mergedAt |-> None,
           whole |-> TRUE],
          [reviews |-> 1, createdAt |-> 0, closedAt |-> Some(60), mergedAt |-> Some(60),
           whole |-> FALSE]}

\* What make_request returns: None, a body without 'data', a body whose
\* 'data' is null, one whose repository is null, and a page.
ApiResponses ==
    {[kind |-> k, nodes |-> <<>>, hasNextPage |-> FALSE] :
        k \in {"none", "errors", "null_data", "not_found"}}
    \cup {[kind |-> "page", nodes |-> n, hasNextPage |-> h] :
             n \in UNION {[1..k -> PullRequestNodes] : k \in 0..MaxNodes}, h \in BOOLEAN}

calculate_pr_lifetime_hours(created_at, closed_at) ==
    IF closed_at = None THEN None ELSE Some(closed_at[1] - created_at)

calculate_time_to_merge_hours(created_at, merged_at) ==
    IF merged_at = None THEN None ELSE Some(merged_at[1] - created_at)

process_pull_request_data(pr, repo_info) ==
    [name |-> repo_info.name,
     owner |-> repo_info.owner,
     pr_reviews_count |-> pr.reviews,
     pr_lifetime_hours |-> calculate_pr_lifetime_hours(pr.createdAt, pr.closedAt),
     pr_time_to_merge_hours |-> calculate_time_to_merge_hours(pr.createdAt, pr.mergedAt)]

\* The test a processed pull request passes to be appended.
long_enough(processed_pr) ==
    \/ /\ processed_pr.pr_lifetime_hours # None
       /\ processed_pr.pr_lifetime_hours[1] >= OneHour
    \/ /\ processed_pr.pr_time_to_merge_hours # None
       /\ processed_pr.pr_time_to_merge_hours[1] >= OneHour

HasReview(pr) == pr.reviews >= 1

\* list.sort(key = review count, reverse = True): stable, largest first.
RECURSIVE sorted_nodes(_, _)
sorted_nodes(nodes, k) ==
    IF k < 0 THEN <<>>
    ELSE LET OfCount(pr) == pr.reviews = k
         IN SelectSeq(nodes, OfCount) \o sorted_nodes(nodes, k - 1)

RECURSIVE sorted_prs(_, _)
sorted_prs(prs, k) ==
    IF k < 0 THEN <<>>
    ELSE LET OfCount(pr) == pr.pr_reviews_count = k
         IN SelectSeq(prs, OfCount) \o sorted_prs(prs, k - 1)

\* The loop over filtered_prs: the pull requests it appends, the first k of
\* the page done and collected_prs at collected before it.
RECURSIVE taken(_, _, _, _)
taken(filtered_prs, k, repo, collected) ==
    IF k = 0 THEN <<>>
    ELSE LET before == taken(filtered_prs, k - 1, repo, collected)
             pr == filtered_prs[k]
         IN IF collected + Len(before) >= limit THEN before
            ELSE IF ~pr.whole THEN before
            ELSE IF long_enough(process_pull_request_data(pr, repo))
                 THEN Append(before, process_pull_request_data(pr, repo))
            ELSE before

InitPull ==
    /\ csv = <<>>
    /\ df = <<>>
    /\ loaded = FALSE
    /\ calls = 0
    /\ result = NoResult
    /\ trace = NoTrace
    /\ lib = NoAnswers
    /\ data = <<>>
    /\ verdict = NoVerdict
    /\ StudyIdle
    /\ ReportIdle
    /\ previous = NoResult
    /\ GeneratorIdle
    /\ HypothesisIdle
    /\ CollectorIdle
    /\ selected \in SelectedLists
    /\ limit \in 0..MaxLimit
    /\ paging = [phase |-> "called", repo |-> 0, collected_prs |-> 0, pages |-> 0]
    /\ all_prs = <<>>
    /\ pulled = <<>>

\* The while loop of repository i is left with prs collected in all: the
\* progress line is printed, then the next repository or the final sort.
Leave(i, prs) ==
    IF limit = 0
    THEN /\ paging' = [paging EXCEPT !.phase = "raised", !.repo = i]
         /\ all_prs' = prs
         /\ pulled' = pulled
    ELSE IF i < Len(selected)
    THEN /\ paging' = [paging EXCEPT !.phase = "paging", !.repo = i + 1,
                                     !.collected_prs = 0]
         /\ all_prs' = prs
         /\ pulled' = pulled
    ELSE /\ paging' = [paging EXCEPT !.phase = "returned", !.repo = i]
         /\ all_prs' = prs
         /\ pulled' = sorted_prs(prs, MaxReviews)

\* The function is called: with no repository it returns the empty list,
\* with limit = 0 the while loop of the first repository is not entered.
StartPull ==
    /\ paging.phase = "called"
    /\ IF Len(selected) = 0
       THEN /\ paging' = [paging EXCEPT !.phase = "returned"]
            /\ all_prs' = <<>>
            /\ pulled' = sorted_prs(<<>>, MaxReviews)
       ELSE IF limit <= 0
       THEN Leave(1, <<>>)
       ELSE /\ paging' = [paging EXCEPT !.phase = "paging", !.repo = 1]
            /\ all_prs' = <<>>
            /\ pulled' = pulled
    /\ UNCHANGED <<csv, df, loaded, calls, result, trace, lib, data, verdict, studyVars,
                   reportVars, previous, generatorVars, hypothesisVars, collectorVars,
                   selected, limit>>

\* One pass of the while loop: a request and what is done with its response.
\* A finite sequence of responses announces a next page finitely often.
FetchPage ==
    /\ paging.phase = "paging"
    /\ \E response_data \in ApiResponses :
          /\ response_data.hasNextPage => paging.pages < MaxPages
          /\ IF response_data.kind \in {"none", "errors"}
             THEN Leave(paging.repo, all_prs)
             ELSE IF response_data.kind = "null_data"
             THEN /\ paging' = [paging EXCEPT !.phase = "raised"]
                  /\ UNCHANGED <<all_prs, pulled>>
             ELSE IF response_data.kind = "not_found"
             THEN Leave(paging.repo, all_prs)
             ELSE LET filtered_prs == sorted_nodes(SelectSeq(response_data.nodes, HasReview),
                                                   MaxReviews)
                      new == taken(filtered_prs, Len(filtered_prs), selected[paging.repo],
                                   paging.collected_prs)
                      collected == paging.collected_prs + Len(new)
                  IN IF ~response_data.hasNextPage \/ collected >= limit
                     THEN Leave(paging.repo, all_prs \o new)
                     ELSE /\ paging' = [paging EXCEPT !.collected_prs = collected,
                                                      !.pages = paging.pages + 1]
                          /\ all_prs' = all_prs \o new
                          /\ pulled' = pulled
    /\ UNCHANGED <<csv, df, loaded, calls, result, trace, lib, data, verdict, studyVars,
                   reportVars, previous, generatorVars, hypothesisVars, collectorVars,
                   selected, limit>>

NextPull == StartPull \/ FetchPage

SpecPull == InitPull /\ [][NextPull]_vars

PulledOf(repo) ==
    {k \in DOMAIN pulled : pulled[k].owner = repo.owner /\ pulled[k].name = repo.name}

\* What the claim says of a list the function returned.
ReturnedList ==
    paging.phase = "returned" =>
       /\ \A r \in DOMAIN selected : Cardinality(PulledOf(selected[r])) <= limit
       /\ \A k \in DOMAIN pulled :
             /\ pulled[k].pr_reviews_count >= 1
             /\ long_enough(pulled[k])
       /\ \A k \in 1..(Len(pulled) - 1) :
             pulled[k].pr_reviews_count >= pulled[k + 1].pr_reviews_count
       /\ Len(pulled) = Len(all_prs)
       /\ \A k \in DOMAIN all_prs : \E j \in DOMAIN pulled : pulled[j] = all_prs[k]

\* C30: collect_pull_requests_data returns at most limit pull requests a
\* repository, each with a review and a lifetime or time to merge of an hour
\* or more, largest review count first; a failed or empty response ends the
\* paging of its repository and discards nothing that was collected.
C30_PullRequests ==
    /\ ReturnedList
    /\ paging.phase # "raised"

\* A response whose data is null after pull requests were collected.
DiscardedByNullData == ~(paging.phase = "raised" /\ limit > 0 /\ Len(all_prs) > 0)
====
